---- MODULE Spec2Model ----
(***************************************************************************)
(* The PM212 pre-paper audit: pm212_prepaper_agent.py ("agent") and its    *)
(* near-duplicate pm212_audit.py ("audit").  One run of main() is a state  *)
(* machine whose position is pc; each loop iteration is one step.          *)
(*                                                                         *)
(* Money is fixed point: one unit is 1e-6 dollar (USD == 1000000 units).   *)
(* Percentages and profit factors, which the code rounds to two decimals,  *)
(* are kept in hundredths.  An optional value is a sequence of length 0    *)
(* (None) or 1.                                                            *)
(***************************************************************************)
EXTENDS Integers, Sequences, FiniteSets, TLC

VARIABLES
    script,             \* which of the two scripts runs: "agent" or "audit"
    cfg,                \* thresholds and execution.tolerance (args.tolerance)
    rows,               \* the rows fetched from the trades table
    qrows,              \* the rows of the quotes table
    nbbo_cols,          \* quotes table found and every column of line 166 resolved
    pc,                 \* position in main()
    daily,              \* daily / day_pnl: date -> net P&L
    gi,                 \* days of sorted(daily) the guardrail loop has evaluated
    loss_streak,
    allowed,
    guardrail_breaches, \* guardrail_breaches / breaches
    symmap,             \* symmap / quotes: symbol -> quotes sorted by timestamp text
    ni,                 \* rows the NBBO loop has looked at
    q,                  \* the quote matched for the row looked at last
    checked,
    within,
    mid_or_better,
    nbbo_outliers,      \* nbbo_outliers / outliers
    nbbo_stats,         \* nbbo_stats / nbbo_summary
    day_5,              \* the DailyPnL (day / day_p) of the 0.05 scenario
    slip_5,             \* slip_5 / slip05
    day_10,             \* the DailyPnL of the 0.10 scenario
    slip_10,            \* slip_10 / slip10
    decision,
    reasons,
    summary,            \* the summary document written and printed
    exit_status,        \* the status the process ended with
    tables,             \* the names of the store's tables, in schema order
    unresolved,         \* the columns no candidate name resolves
    trades_tbl,
    quotes_tbl,
    outputs,            \* the directory and files the run has created
    clock,              \* what datetime.utcnow() gives
    first,              \* the summary of an earlier run on the same store
    columns,            \* the store's schema: table name -> column names in order
    colmap,             \* the ColumnRoleMap: role -> the column picked for it
    first_map,          \* what an earlier run of the resolver gave
    turn,               \* the analyzer running: "seq" when they run in program order
    at                  \* analyzer -> the position it was left at

inVars == <<script, cfg, rows, qrows, nbbo_cols, tables, unresolved,
            trades_tbl, quotes_tbl, clock, first, columns, colmap, first_map,
            turn, at>>
guardVars == <<daily, gi, loss_streak, allowed, guardrail_breaches>>
nbboVars == <<symmap, ni, q, checked, within, mid_or_better, nbbo_outliers, nbbo_stats>>
slipVars == <<day_5, slip_5, day_10, slip_10>>
decVars == <<decision, reasons, summary, exit_status, outputs>>
vars == <<inVars, pc, guardVars, nbboVars, slipVars, decVars>>

\* ------------------------------------------------------------- helpers

None == <<>>
Some(x) == <<x>>

USD == 1000000
NanoPerUnit == 1000

Abs(x) == IF x < 0 THEN -x ELSE x
Min(a, b) == IF a <= b THEN a ELSE b

\* n / d rounded to the nearest integer, ties to even (Python's round), d > 0.
RoundDiv(n, d) ==
    LET quo == n \div d
        rem == n % d
    IN  IF 2 * rem < d THEN quo
        ELSE IF 2 * rem > d THEN quo + 1
        ELSE IF quo % 2 = 0 THEN quo ELSE quo + 1

\* round(x, 2) of a money amount: to the cent, in money units.
Round2(x) == RoundDiv(x, USD \div 100) * (USD \div 100)

RECURSIVE SortedSeq_desc(_)
\* SortedSeq from the greatest down
SortedSeq_desc(S) ==
    IF S = {} THEN <<>>
    ELSE LET m == CHOOSE x \in S : \A y \in S : x >= y
         IN  <<m>> \o SortedSeq_desc(S \ {m})

RECURSIVE SortedSeq(_)
\* sorted(S) for a finite set of integers
SortedSeq(S) ==
    IF S = {} THEN <<>>
    ELSE LET m == CHOOSE x \in S : \A y \in S : x <= y
         IN  <<m>> \o SortedSeq(S \ {m})

\* -------------------------------------------------------------- bounds

MaxDays == 4

\* ---------------------------------------------------------- raw values
\* A value read from the store: NULL, a number or a text.

Null == [k |-> "null", n |-> 0, s |-> ""]
Num(x) == [k |-> "num", n |-> x, s |-> ""]
Text(t) == [k |-> "text", n |-> 0, s |-> t]

\* Python truthiness of a raw value (`x or 0`, `if ts`)
Truthy(x) ==
    \/ x.k = "num" /\ x.n # 0
    \/ x.k = "text" /\ x.s # ""

DigitChars == <<"0", "1", "2", "3", "4", "5", "6", "7", "8", "9">>
DigitSet == {"0", "1", "2", "3", "4", "5", "6", "7", "8", "9"}
IsDigit(c) == c \in DigitSet
DigitVal(c) ==
    CASE c = "0" -> 0 [] c = "1" -> 1 [] c = "2" -> 2 [] c = "3" -> 3
      [] c = "4" -> 4 [] c = "5" -> 5 [] c = "6" -> 6 [] c = "7" -> 7
      [] c = "8" -> 8 [] c = "9" -> 9

\* the code point of a character of the model's texts
Ord(c) ==
    IF IsDigit(c) THEN 48 + DigitVal(c)
    ELSE CASE c = " " -> 32 [] c = "-" -> 45 [] c = "/" -> 47 [] c = ":" -> 58
           [] c = "N" -> 78 [] c = "T" -> 84 [] c = "a" -> 97 [] c = "e" -> 101
           [] c = "n" -> 110 [] c = "o" -> 111

RECURSIVE Digits(_)
\* the decimal digits of n >= 0
Digits(n) ==
    IF n < 10 THEN DigitChars[n + 1]
    ELSE Digits(n \div 10) \o DigitChars[(n % 10) + 1]

\* str(x)
Str(x) ==
    IF x.k = "text" THEN x.s
    ELSE IF x.k = "num" THEN Digits(x.n)
    ELSE "None"

RECURSIVE StrLeq(_, _)
\* a <= b for Python strings: lexicographic by code point
StrLeq(a, b) ==
    IF a = "" THEN TRUE
    ELSE IF b = "" THEN FALSE
    ELSE IF Ord(Head(a)) < Ord(Head(b)) THEN TRUE
    ELSE IF Ord(Head(a)) > Ord(Head(b)) THEN FALSE
    ELSE StrLeq(Tail(a), Tail(b))

\* ------------------------------------------------------ to_dt / to_date
\* A date is the integer yyyymmdd.  strptime is modelled for zero-padded
\* fields; in a format "9" stands for a digit and any other character for
\* itself.

\* the characters of a string
Chars(s) == [i \in 1..Len(s) |-> SubSeq(s, i, i)]

FmtSec ==
    <<"9", "9", "9", "9", "-", "9", "9", "-", "9", "9",
      " ", "9", "9", ":", "9", "9", ":", "9", "9">>
FmtT ==
    <<"9", "9", "9", "9", "-", "9", "9", "-", "9", "9",
      "T", "9", "9", ":", "9", "9", ":", "9", "9">>
FmtMin ==
    <<"9", "9", "9", "9", "-", "9", "9", "-", "9", "9",
      " ", "9", "9", ":", "9", "9">>
FmtDate == <<"9", "9", "9", "9", "-", "9", "9", "-", "9", "9">>
FmtSlash ==
    <<"9", "9", "9", "9", "/", "9", "9", "/", "9", "9",
      " ", "9", "9", ":", "9", "9", ":", "9", "9">>

Formats(sc) ==
    IF sc = "agent" THEN <<FmtSec, FmtT, FmtMin, FmtDate>>
    ELSE <<FmtSec, FmtT, FmtDate, FmtSlash, FmtMin>>

\* does the whole string, of characters cs, match the format f
Matches(cs, f) ==
    /\ Len(cs) = Len(f)
    /\ \A i \in 1..Len(f) : IF f[i] = "9" THEN cs[i] \in DigitSet ELSE cs[i] = f[i]

\* the number written in the two digits of cs from position i
Val2(cs, i) == 10 * DigitVal(cs[i]) + DigitVal(cs[i + 1])
Val4(cs, i) == 100 * Val2(cs, i) + Val2(cs, i + 2)

\* the fields of a matched string are in range (all formats put the date in
\* the first ten characters, the time from the twelfth)
InRange(cs) ==
    /\ Val4(cs, 1) >= 1
    /\ Val2(cs, 6) \in 1..12
    /\ Val2(cs, 9) \in 1..31
    /\ Len(cs) >= 13 => Val2(cs, 12) <= 23
    /\ Len(cs) >= 16 => Val2(cs, 15) <= 59
    /\ Len(cs) >= 19 => Val2(cs, 18) <= 61

\* utcfromtimestamp(n).date() for n >= 0
EpochDate(n) ==
    LET z == n \div 86400 + 719468
        era == z \div 146097
        doe == z - era * 146097
        yoe == (doe - doe \div 1460 + doe \div 36524 - doe \div 146096) \div 365
        doy == doe - (365 * yoe + yoe \div 4 - yoe \div 100)
        mp == (5 * doy + 2) \div 153
        d == doy - (153 * mp + 2) \div 5 + 1
        m == IF mp < 10 THEN mp + 3 ELSE mp - 9
        y == yoe + era * 400 + (IF m <= 2 THEN 1 ELSE 0)
    IN  y * 10000 + m * 100 + d

\* to_dt(s).date(), or None
to_dt(sc, x) ==
    IF x.k = "null" THEN None
    ELSE IF x.k = "num" THEN (IF x.n >= 0 THEN Some(EpochDate(x.n)) ELSE None)
    ELSE LET cs == Chars(SubSeq(x.s, 1, Min(19, Len(x.s))))
             fs == Formats(sc)
         IN  IF \E i \in 1..Len(fs) : Matches(cs, fs[i]) /\ InRange(cs)
             THEN Some(Val4(cs, 1) * 10000 + Val2(cs, 6) * 100 + Val2(cs, 9))
             ELSE None

\* ------------------------------------------- trade rows and daily P&L
\* A column that was not resolved reads as NULL in every row: `float(r[c] or
\* 0) if c else 0.0` and `d.get(None)` give what a NULL value gives.

\* float(s) of a text, in the given unit: a sign, digits and at most one
\* point (the texts of the model carry no exponent, blanks or underscores and
\* no more decimals than the unit holds); None where float raises ValueError
Unsigned(cs) == IF cs # <<>> /\ cs[1] \in {"-", "+"} THEN Tail(cs) ELSE cs

IsDecimal(cs) ==
    LET b == Unsigned(cs)
        dots == {i \in 1..Len(b) : b[i] = "."}
    IN  /\ Cardinality(dots) <= 1
        /\ Len(b) > Cardinality(dots)
        /\ \A i \in (1..Len(b)) \ dots : b[i] \in DigitSet

RECURSIVE NatOf(_)
NatOf(cs) ==
    IF cs = <<>> THEN 0
    ELSE 10 * NatOf(SubSeq(cs, 1, Len(cs) - 1)) + DigitVal(cs[Len(cs)])

RECURSIVE Pow10(_)
Pow10(k) == IF k = 0 THEN 1 ELSE 10 * Pow10(k - 1)

ParseFloat(s, unit) ==
    LET cs == Chars(s)
        b == Unsigned(cs)
        dots == {i \in 1..Len(b) : b[i] = "."}
        dot == IF dots = {} THEN Len(b) + 1 ELSE CHOOSE i \in dots : TRUE
        whole == SubSeq(b, 1, dot - 1)
        frac == SubSeq(b, dot + 1, Len(b))
        sign == IF cs[1] = "-" THEN -1 ELSE 1
    IN  IF ~IsDecimal(cs) THEN None
        ELSE Some(sign * (NatOf(whole) * unit + (NatOf(frac) * unit) \div Pow10(Len(frac))))

\* float(x) raises ValueError: a text that is no number.  `x or d` passes
\* the empty text and NULL over.
FloatRaises(x) == x.k = "text" /\ x.s # "" /\ ParseFloat(x.s, 1) = None

\* float(x or d) in the given unit, where it does not raise
FloatOrIn(x, d, unit) ==
    IF ~Truthy(x) THEN d
    ELSE IF x.k = "num" THEN x.n
    ELSE ParseFloat(x.s, unit)[1]

\* float(x or d) of an amount of money
FloatOr(x, d) == FloatOrIn(x, d, USD)

qty_of(r) == FloatOrIn(r.qty, 0, 1)
mult_of(r) == FloatOrIn(r.mult, 100, 1)
pin_of(r) == FloatOr(r.pin, 0)
pout_of(r) == FloatOr(r.pout, 0)
fees_of(r) == FloatOr(r.fees, 0)

\* realized: derived when the stored value is NULL; else float(realized), and
\* 0.0 where that raises (agent lines 134-139).  The audit takes the stored
\* value as it is (line 115): a number gives the same, a text raises in
\* `realized - t['fees']` (RealizedRaises).
realized_of(r) ==
    IF r.real.k = "null" THEN (pout_of(r) - pin_of(r)) * qty_of(r) * mult_of(r)
    ELSE IF r.real.k = "num" THEN r.real.n
    ELSE IF ParseFloat(r.real.s, USD) = None THEN 0
    ELSE ParseFloat(r.real.s, USD)[1]

\* the audit's `realized - t['fees']` raises TypeError on a text
RealizedRaises(sc, r) == sc = "audit" /\ r.real.k = "text"

\* a numeric field of the row makes float() raise
FieldRaises(r) ==
    \/ FloatRaises(r.qty) \/ FloatRaises(r.mult) \/ FloatRaises(r.pin)
    \/ FloatRaises(r.pout) \/ FloatRaises(r.fees)

\* building the daily P&L raises: the agent converts the fields of the rows
\* it has a date for (lines 126-133), the audit those of every row (lines
\* 102-106) and then subtracts the fees from the realized value of the dated
\* ones (line 118)
DailyRaises(sc, rs) ==
    \E i \in 1..Len(rs) :
        \/ FieldRaises(rs[i]) /\ (sc = "audit" \/ to_dt(sc, rs[i].tin) # None)
        \/ RealizedRaises(sc, rs[i]) /\ to_dt(sc, rs[i].tin) # None

\* slip_of without the abs: a short position earns its penalty back
slip_of_signed(r, cents) == cents * qty_of(r) * mult_of(r)

\* slip = cents * abs(qty) * mult; cents is in money units per contract
slip_of(r, cents) == cents * Abs(qty_of(r)) * mult_of(r)

\* what a row adds to its day: realized - fees (- slip)
RowNet(r, cents) == realized_of(r) - fees_of(r) - slip_of(r, cents)

RECURSIVE SumOn(_, _, _, _, _)
\* the sum of RowNet over the rows i..Len(rs) whose entry date dts[i] is d
SumOn(rs, dts, i, d, cents) ==
    IF i > Len(rs) THEN 0
    ELSE (IF dts[i] = Some(d) THEN RowNet(rs[i], cents) ELSE 0)
         + SumOn(rs, dts, i + 1, d, cents)

\* the dictionary the loop over rows builds (defaultdict(float)): a row whose
\* entry timestamp gives no date is passed over
RECURSIVE EntryDates_nullzero(_, _)
\* EntryDates reading a NULL timestamp as the epoch second 0
EntryDates_nullzero(sc, rs) ==
    IF rs = <<>> THEN <<>>
    ELSE <<to_dt(sc, IF Head(rs).tin.k = "null" THEN Num(0) ELSE Head(rs).tin)>>
         \o EntryDates_nullzero(sc, Tail(rs))

RECURSIVE EntryDates(_, _)
EntryDates(sc, rs) ==
    IF rs = <<>> THEN <<>>
    ELSE <<to_dt(sc, Head(rs).tin)>> \o EntryDates(sc, Tail(rs))

DayPnl(sc, rs, cents) ==
    LET dts == EntryDates(sc, rs)
        ds == {dts[i][1] : i \in {j \in 1..Len(rs) : dts[j] # None}}
    IN  [d \in ds |-> SumOn(rs, dts, 1, d, cents)]

BuildDaily ==
    /\ pc = "daily"
    /\ ~DailyRaises(script, rows)
    /\ daily' = DayPnl(script, rows, 0)
    /\ pc' = "guardrail"
    /\ UNCHANGED <<inVars, gi, loss_streak, allowed, guardrail_breaches,
                   nbboVars, slipVars, decVars>>

\* the exception is not caught: traceback, exit status 1, nothing written
BuildDailyRaise ==
    /\ pc = "daily"
    /\ DailyRaises(script, rows)
    /\ pc' = "crashed"
    /\ exit_status' = Some(1)
    /\ UNCHANGED <<inVars, guardVars, nbboVars, slipVars, decision, reasons, summary,
                   outputs>>

\* ----------------------------------------------------- guardrail check

start_loss == 500 * USD
fib == <<300 * USD, 200 * USD, 100 * USD>>

\* the rounding guard of the breach test, in 1e-9 dollar
Epsilon(s) == IF s = "agent" THEN 1 ELSE 1000

\* AllowedLoss with the streak clamped one short: 200 stays in force from the
\* second losing day on
AllowedLoss_clamp1(s, pnl, streak) ==
    IF pnl >= 0 THEN start_loss ELSE fib[Min(streak, 1) + 1]

\* allowed loss of a day, from the streak at its open
AllowedLoss(s, pnl, streak) ==
    IF pnl >= 0 THEN start_loss
    ELSE IF s = "agent" THEN fib[Min(streak, 2) + 1]
    ELSE IF streak = 0 THEN 300 * USD
    ELSE IF streak = 1 THEN 200 * USD
    ELSE 100 * USD

\* StreakAfter resetting on a strictly positive day only
StreakAfter_strict(pnl, streak) ==
    IF pnl > 0 THEN 0 ELSE Min(3, streak + 1)

\* StreakAfter without the cap
StreakAfter_nocap(pnl, streak) ==
    IF pnl >= 0 THEN 0 ELSE streak + 1

\* loss_streak after a day
StreakAfter(pnl, streak) ==
    IF pnl >= 0 THEN 0 ELSE Min(3, streak + 1)

\* abs(pnl) > allowed + epsilon, on a losing day.  For whole units a and b,
\* a > b + e/1000 exactly when a - b > e \div 1000.
IsBreach(s, pnl, allow) ==
    /\ pnl < 0
    /\ Abs(pnl) - allow > Epsilon(s) \div NanoPerUnit

\* The agent's record is {date, net_pnl, allowed, streak}; the audit's has the
\* same four values under the keys date, net_pnl, allowed_loss,
\* loss_streak_at_open.
\* BreachRecord taking the streak from a counter the quote matcher shares
BreachRecord_shared(d, pnl, allow, streak) ==
    [date |-> d, net_pnl |-> Round2(pnl), allowed |-> allow, streak |-> streak + checked]

BreachRecord(d, pnl, allow, streak) ==
    [date |-> d, net_pnl |-> Round2(pnl), allowed |-> allow, streak |-> streak]

days == SortedSeq(DOMAIN daily)

GuardrailDay ==
    /\ pc = "guardrail"
    /\ gi < Len(days)
    /\ LET d == days[gi + 1]
           pnl == daily[d]
           a == AllowedLoss(script, pnl, loss_streak)
       IN  /\ allowed' = Some(a)
           /\ guardrail_breaches' =
                 IF IsBreach(script, pnl, a)
                 THEN Append(guardrail_breaches, BreachRecord(d, pnl, a, loss_streak))
                 ELSE guardrail_breaches
           /\ loss_streak' = StreakAfter(pnl, loss_streak)
    /\ gi' = gi + 1
    /\ UNCHANGED <<inVars, pc, daily, nbboVars, slipVars, decVars>>

GuardrailEnd ==
    /\ pc = "guardrail"
    /\ gi = Len(days)
    /\ pc' = "nbbo"
    /\ UNCHANGED <<inVars, guardVars, nbboVars, slipVars, decVars>>

\* ---------------------------------------------------- NBBO plausibility

\* one entry of a symbol's list: (str(ts), float(bid or 0), float(ask or 0)).
\* The audit keeps the raw tuple and converts where it reads it (lines 150,
\* 160, 166); what is compared and returned is the same.
QuoteEntry(qr) ==
    [ts |-> Str(qr.ts), bid |-> FloatOr(qr.bid, 0), ask |-> FloatOr(qr.ask, 0)]

\* list.sort(key = timestamp text) is stable: x goes behind every entry whose
\* key is <= its own.
InsertByTs(arr, x) ==
    LET k == Cardinality({i \in 1..Len(arr) : StrLeq(arr[i].ts, x.ts)})
    IN  SubSeq(arr, 1, k) \o <<x>> \o SubSeq(arr, k + 1, Len(arr))

RECURSIVE SortByTs(_)
SortByTs(arr) ==
    IF arr = <<>> THEN <<>>
    ELSE InsertByTs(SortByTs(SubSeq(arr, 1, Len(arr) - 1)), arr[Len(arr)])

RECURSIVE Entries(_, _)
\* the entries of symbol s in table order
Entries(qs, s) ==
    IF qs = <<>> THEN <<>>
    ELSE IF Head(qs).sym = s THEN <<QuoteEntry(Head(qs))>> \o Entries(Tail(qs), s)
    ELSE Entries(Tail(qs), s)

BuildSymmap(qs) ==
    [s \in {qs[i].sym : i \in 1..Len(qs)} |-> SortByTs(Entries(qs, s))]

RECURSIVE BinSearch_ahead(_, _, _, _, _)
\* BinSearch with the comparison turned round: it settles on a quote at or
\* after the key
BinSearch_ahead(arr, key, lo, hi, best) ==
    IF lo > hi THEN best
    ELSE LET mid == (lo + hi) \div 2
         IN  IF StrLeq(key, arr[mid + 1].ts)
             THEN BinSearch_ahead(arr, key, lo, mid - 1, Some(arr[mid + 1]))
             ELSE BinSearch_ahead(arr, key, mid + 1, hi, best)

RECURSIVE BinSearch_first(_, _, _, _, _)
\* BinSearch moving left after a hit: it settles on an early quote <= key
BinSearch_first(arr, key, lo, hi, best) ==
    IF lo > hi THEN best
    ELSE LET mid == (lo + hi) \div 2
         IN  IF StrLeq(arr[mid + 1].ts, key)
             THEN BinSearch_first(arr, key, lo, mid - 1, Some(arr[mid + 1]))
             ELSE BinSearch_first(arr, key, lo, mid - 1, best)

RECURSIVE BinSearch(_, _, _, _, _)
\* the loop `while lo <= hi`, lo and hi counted from 0 as in the code
BinSearch(arr, key, lo, hi, best) ==
    IF lo > hi THEN best
    ELSE LET mid == (lo + hi) \div 2
         IN  IF StrLeq(arr[mid + 1].ts, key)
             THEN BinSearch(arr, key, mid + 1, hi, Some(arr[mid + 1]))
             ELSE BinSearch(arr, key, lo, mid - 1, best)

\* agent: last_before(sym, t)
last_before(sm, sym, t) ==
    LET arr == IF sym \in DOMAIN sm THEN sm[sym] ELSE <<>>
    IN  BinSearch(arr, Str(t), 0, Len(arr) - 1, None)

\* audit: the quote nearest(sym, ts) settles on before it returns its bid
\* and ask
nearest(sm, sym, ts) ==
    IF sym \notin DOMAIN sm THEN None
    ELSE BinSearch(sm[sym], Str(ts), 0, Len(sm[sym]) - 1, None)

\* WithinBand with the upper edge excluded
WithinBand_strict(px, bid, ask, tol) == px >= bid - tol /\ px < ask + tol

\* (px >= bid - tol) and (px <= ask + tol)
WithinBand(px, bid, ask, tol) == px >= bid - tol /\ px <= ask + tol

\* ask >= bid and px >= (bid + ask) / 2.0
AtOrAboveMid(px, bid, ask) == ask >= bid /\ 2 * px >= bid + ask

\* Pct giving 0 percent of nothing
Pct_zero(k, n) == IF n = 0 THEN Some(0) ELSE Some(RoundDiv(10000 * k, n))

\* round(100.0 * k / n, 2) if n else None, in hundredths of a percent
Pct(k, n) == IF n = 0 THEN None ELSE Some(RoundDiv(10000 * k, n))

NbboSkip ==
    /\ pc = "nbbo"
    /\ ~nbbo_cols
    /\ pc' = "slippage"
    /\ UNCHANGED <<inVars, guardVars, nbboVars, slipVars, decVars>>

NbboBuild ==
    /\ pc = "nbbo"
    /\ nbbo_cols
    /\ symmap' = BuildSymmap(qrows)
    /\ checked' = 0
    /\ within' = 0
    /\ mid_or_better' = 0
    /\ pc' = "nbbo_loop"
    /\ UNCHANGED <<inVars, guardVars, ni, q, nbbo_outliers, nbbo_stats, slipVars, decVars>>

\* one pass of the agent's `for r in rows` (lines 189-205)
NbboRow ==
    /\ pc = "nbbo_loop"
    /\ script = "agent"
    /\ ni < Len(rows)
    /\ ~FloatRaises(rows[ni + 1].pin)
    /\ ni' = ni + 1
    /\ LET r == rows[ni + 1]
           px == FloatOr(r.pin, 0)
           m == last_before(symmap, r.sym, r.tin)
       IN  IF ~(r.sym # "" /\ Truthy(r.tin))
           THEN UNCHANGED <<q, checked, within, mid_or_better, nbbo_outliers>>
           ELSE /\ q' = m
                /\ IF m = None
                   THEN UNCHANGED <<checked, within, mid_or_better, nbbo_outliers>>
                   ELSE LET bid == m[1].bid
                            ask == m[1].ask
                        IN  /\ checked' = checked + 1
                            /\ IF WithinBand(px, bid, ask, cfg.tolerance)
                               THEN /\ within' = within + 1
                                    /\ UNCHANGED nbbo_outliers
                               ELSE /\ nbbo_outliers' = Append(nbbo_outliers,
                                          [symbol |-> r.sym, time |-> Str(r.tin),
                                           price |-> px, bid |-> bid, ask |-> ask])
                                    /\ UNCHANGED within
                            /\ mid_or_better' =
                                  IF AtOrAboveMid(px, bid, ask)
                                  THEN mid_or_better + 1 ELSE mid_or_better
    /\ UNCHANGED <<inVars, pc, guardVars, symmap, nbbo_stats, slipVars, decVars>>

\* the audit's loop calls r.get on a sqlite3.Row, which has no such
\* attribute: the first row raises AttributeError and the run dies (line
\* 173).  The agent's float(r[c_pin] or 0) raises ValueError on a text that is
\* no number (line 192).
NbboRowRaise ==
    /\ pc = "nbbo_loop"
    /\ ni < Len(rows)
    /\ script = "audit" \/ FloatRaises(rows[ni + 1].pin)
    /\ pc' = "crashed"
    /\ exit_status' = Some(1)
    /\ UNCHANGED <<inVars, guardVars, nbboVars, slipVars, decision, reasons, summary,
                   outputs>>

NbboEnd ==
    /\ pc = "nbbo_loop"
    /\ ni = Len(rows)
    /\ nbbo_stats' = Some([checked |-> checked, within |-> within,
                           pct_within |-> Pct(within, checked),
                           pct_mid_or_better |-> Pct(mid_or_better, checked)])
    /\ pc' = "slippage"
    /\ UNCHANGED <<inVars, guardVars, symmap, ni, q, checked, within,
                   mid_or_better, nbbo_outliers, slipVars, decVars>>

\* ------------------------------------------------------ slippage stress

Cent == USD \div 100

Cents5 == 50000
Cents10 == 100000

RECURSIVE SumSeq(_)
SumSeq(xs) == IF xs = <<>> THEN 0 ELSE Head(xs) + SumSeq(Tail(xs))

RECURSIVE Gcd(_, _)
Gcd(a, b) == IF b = 0 THEN a ELSE Gcd(b, a % b)

\* [v for _, v in sorted(day.items())]
SeriesOf(day) == LET ks == SortedSeq(DOMAIN day) IN [i \in 1..Len(ks) |-> day[ks[i]]]

Positive(x) == IF x > 0 THEN x ELSE 0
Negative(x) == IF x < 0 THEN x ELSE 0

\* profit_factor(series): wins / losses as an exact fraction, None when
\* losses is not > 0
profit_factor(series) ==
    LET wins == SumSeq([i \in 1..Len(series) |-> Positive(series[i])])
        losses == Abs(SumSeq([i \in 1..Len(series) |-> Negative(series[i])]))
    IN  IF losses > 0 THEN Some([wins |-> wins, losses |-> losses]) ELSE None

\* round(wins / losses, 2) in hundredths
Round2Ratio(f) ==
    LET g == Gcd(f.wins, f.losses)
    IN  RoundDiv(100 * (f.wins \div g), f.losses \div g)

\* `round(pf, 2) if pf else None`: a profit factor of 0.0 is falsy
PfReported(pf) ==
    IF pf # None /\ pf[1].wins # 0 THEN Some(Round2Ratio(pf[1])) ELSE None

\* agent: pf_with_slip(cents), from the dictionary its loop built
pf_with_slip(day) ==
    LET series == SeriesOf(day)
    IN  [pf |-> PfReported(profit_factor(series)),
         net_sum |-> Round2(SumSeq(series))]

\* audit: pnl_with_slip(per_contract).  wins, losses, gross_win and
\* gross_loss run over the trades with an entry date, not over the days.
pnl_with_slip(sc, rs, cents) ==
    LET dated == SelectSeq(rs, LAMBDA r : to_dt(sc, r.tin) # None)
        net == [i \in 1..Len(dated) |-> RowNet(dated[i], cents)]
        day == DayPnl(sc, rs, cents)
    IN  [pf |-> PfReported(profit_factor(net)),
         wins |-> Cardinality({i \in 1..Len(net) : net[i] > 0}),
         losses |-> Cardinality({i \in 1..Len(net) : net[i] < 0}),
         total_days |-> Cardinality(DOMAIN day),
         net_sum |-> Round2(SumSeq(SeriesOf(day)))]

SlipResult(sc, rs, cents) ==
    IF sc = "agent" THEN pf_with_slip(DayPnl(sc, rs, cents))
    ELSE pnl_with_slip(sc, rs, cents)

Slip5 ==
    /\ pc = "slippage"
    /\ day_5' = DayPnl(script, rows, Cents5)
    /\ slip_5' = Some(SlipResult(script, rows, Cents5))
    /\ pc' = "slippage10"
    /\ UNCHANGED <<inVars, guardVars, nbboVars, day_10, slip_10, decVars>>

Slip10 ==
    /\ pc = "slippage10"
    /\ day_10' = DayPnl(script, rows, Cents10)
    /\ slip_10' = Some(SlipResult(script, rows, Cents10))
    /\ pc' = IF script = "agent" THEN "dec_guard" ELSE "summary"
    /\ UNCHANGED <<inVars, guardVars, nbboVars, day_5, slip_5, decVars>>

\* ------------------------------------------------------------- decision

\* Reject without the append
Reject_silent(reason) ==
    /\ decision' = "REJECT"
    /\ UNCHANGED reasons

\* Reject putting the reason in front
Reject_front(reason) ==
    /\ decision' = "REJECT"
    /\ reasons' = <<reason>> \o reasons

\* decision = 'REJECT'; reasons.append(reason)
Reject(reason) ==
    /\ decision' = "REJECT"
    /\ reasons' = Append(reasons, reason)

\* lines 240-244
DecGuardrail ==
    /\ pc = "dec_guard"
    /\ IF Len(guardrail_breaches) > cfg.guardrail_breaches_max
       THEN /\ decision' = "REJECT"
            /\ reasons' = <<"Guardrail breaches present">>
       ELSE /\ decision' = "APPROVE"
            /\ reasons' = <<>>
    /\ pc' = "dec_within"
    /\ UNCHANGED <<inVars, guardVars, nbboVars, slipVars, summary, exit_status,
                   outputs>>

\* lines 245-247
DecWithin ==
    /\ pc = "dec_within"
    /\ IF /\ nbbo_stats # None
          /\ nbbo_stats[1].pct_within # None
          /\ nbbo_stats[1].pct_within[1] < cfg.nbbo_within_pct
       THEN Reject("NBBO coverage below threshold")
       ELSE UNCHANGED <<decision, reasons>>
    /\ pc' = "dec_mid"
    /\ UNCHANGED <<inVars, guardVars, nbboVars, slipVars, summary, exit_status,
                   outputs>>

\* lines 245, 248-249
DecMid ==
    /\ pc = "dec_mid"
    /\ IF /\ nbbo_stats # None
          /\ nbbo_stats[1].pct_mid_or_better # None
          /\ nbbo_stats[1].pct_mid_or_better[1] > cfg.mid_rate_max_pct
       THEN Reject("Mid-or-better rate too high (unrealistic fills)")
       ELSE UNCHANGED <<decision, reasons>>
    /\ pc' = "dec_pf5"
    /\ UNCHANGED <<inVars, guardVars, nbboVars, slipVars, summary, exit_status,
                   outputs>>

\* lines 250-251
DecPf5 ==
    /\ pc = "dec_pf5"
    /\ IF slip_5[1].pf # None /\ slip_5[1].pf[1] < cfg.pf_5c_min
       THEN Reject("PF under $0.05 slippage below threshold")
       ELSE UNCHANGED <<decision, reasons>>
    /\ pc' = "dec_pf10"
    /\ UNCHANGED <<inVars, guardVars, nbboVars, slipVars, summary, exit_status,
                   outputs>>

\* lines 252-253
DecPf10 ==
    /\ pc = "dec_pf10"
    /\ IF slip_10[1].pf # None /\ slip_10[1].pf[1] < cfg.pf_10c_min
       THEN Reject("PF under $0.10 slippage below threshold")
       ELSE UNCHANGED <<decision, reasons>>
    /\ pc' = "summary"
    /\ UNCHANGED <<inVars, guardVars, nbboVars, slipVars, summary, exit_status,
                   outputs>>

\* the files the run writes once its summary is built: the agent its JSON
\* summary, the two CSV files when they have rows and the report (lines
\* 268-302), the audit its JSON report (lines 236-237)
Written ==
    IF script = "audit" THEN {"summary"}
    ELSE {"summary", "report"}
         \cup (IF guardrail_breaches # <<>> THEN {"breaches.csv"} ELSE {})
         \cup (IF nbbo_stats # None /\ nbbo_outliers # <<>>
               THEN {"nbbo_outliers_sample.csv"} ELSE {})

\* the summary is built, written and printed, and main() returns
Summary ==
    /\ pc = "summary"
    /\ summary' = Some([date_generated |-> IF script = "agent" THEN Some(clock) ELSE None,
                        breach_count |-> Len(guardrail_breaches),
                        nbbo_stats |-> nbbo_stats,
                        slippage |-> <<slip_5[1], slip_10[1]>>,
                        decision |-> decision,
                        reasons |-> reasons])
    /\ outputs' = outputs \cup Written
    /\ exit_status' = Some(0)
    /\ pc' = "done"
    /\ UNCHANGED <<inVars, guardVars, nbboVars, slipVars, decision, reasons>>

\* ------------------------------------------------------- specifications

DefaultCfg ==
    [nbbo_within_pct |-> 9800, mid_rate_max_pct |-> 6000,
     pf_5c_min |-> 130, pf_10c_min |-> 115,
     guardrail_breaches_max |-> 0, tolerance |-> USD \div 100,
     slippage_penalty_cents |-> <<Cents5, Cents10>>]

Row(sym, tin, qty, pin, pout, real, fees, mult) ==
    [sym |-> sym, tin |-> tin, qty |-> qty, pin |-> pin, pout |-> pout,
     real |-> real, fees |-> fees, mult |-> mult]

QuoteRow(sym, ts, bid, ask) == [sym |-> sym, ts |-> ts, bid |-> bid, ask |-> ask]

\* the accumulators as main() initialises them
BlankGuard ==
    /\ gi = 0
    /\ loss_streak = 0
    /\ allowed = None
    /\ guardrail_breaches = <<>>

BlankNbbo ==
    /\ symmap = <<>>
    /\ ni = 0
    /\ q = None
    /\ checked = 0
    /\ within = 0
    /\ mid_or_better = 0
    /\ nbbo_outliers = <<>>
    /\ nbbo_stats = None

BlankRest ==
    /\ day_5 = <<>>
    /\ slip_5 = None
    /\ day_10 = <<>>
    /\ slip_10 = None
    /\ decision = ""
    /\ reasons = <<>>
    /\ summary = None
    /\ exit_status = None

\* ------------------------------------------------------ start of main()

\* the analyzers run in program order: none is left at a position
NotWoven == [g |-> "", n |-> "", s |-> ""]

UpperChars == "ABCDEFGHIJKLMNOPQRSTUVWXYZ"
LowerChars == "abcdefghijklmnopqrstuvwxyz"

UpperSet == {SubSeq(UpperChars, i, i) : i \in 1..Len(UpperChars)}

LowerChar(c) ==
    IF c \in UpperSet
    THEN LET i == CHOOSE j \in 1..Len(UpperChars) : SubSeq(UpperChars, j, j) = c
         IN  SubSeq(LowerChars, i, i)
    ELSE c

RECURSIVE Lower(_)
\* str.lower()
Lower(t) == IF t = "" THEN "" ELSE LowerChar(SubSeq(t, 1, 1)) \o Lower(Tail(t))

\* `pat in n`
Contains(n, pat) ==
    \E i \in 1..(Len(n) - Len(pat) + 1) : SubSeq(n, i, i + Len(pat) - 1) = pat

\* The candidates for the trades and the quotes table, in order.  The
\* audit's are the regular expressions trade, fills? and positions?, which
\* re.search finds exactly where it finds trade, fill and position.
TradePatterns(sc) ==
    IF sc = "agent" THEN <<"trade", "fills", "positions">>
    ELSE <<"trade", "fill", "position">>

QuotePatterns == <<"nbbo", "quote", "bestbidask", "book">>

\* detect_table with its loops exchanged: the first table, in schema order,
\* that any pattern matches
detect_table_tablefirst(sc, names, patterns) ==
    LET hit == {i \in 1..Len(names) :
                   \E p \in 1..Len(patterns) : Contains(Lower(names[i]), Lower(patterns[p]))}
    IN  IF hit = {} THEN None
        ELSE LET i == CHOOSE x \in hit : \A y \in hit : x <= y
             IN  Some(IF sc = "agent" THEN names[i] ELSE Lower(names[i]))

\* detect_table: the first table, in schema order, matching the first
\* pattern that any table matches; the audit gives the name in lower case
detect_table(sc, names, patterns) ==
    LET hit(p) == {i \in 1..Len(names) : Contains(Lower(names[i]), Lower(patterns[p]))}
        pats == {p \in 1..Len(patterns) : hit(p) # {}}
    IN  IF pats = {} THEN None
        ELSE LET p == CHOOSE x \in pats : \A y \in pats : x <= y
                 i == CHOOSE x \in hit(p) : \A y \in hit(p) : x <= y
             IN  Some(IF sc = "agent" THEN names[i] ELSE Lower(names[i]))

\* The roles of the trades table in the order main() picks them, and those
\* of the quotes table.
TradeRoles ==
    <<"id", "sym", "exp", "strk", "right", "side", "qty", "tin", "tout", "pin",
      "pout", "real", "fees", "mult">>

QuoteRoles == <<"q_ts", "q_sym", "bid", "ask">>

Range(f) == {f[i] : i \in DOMAIN f}

Roles == Range(TradeRoles) \cup Range(QuoteRoles)

\* the candidate column names of a role, in the order pick() tries them
Aliases(role) ==
    CASE role = "id" -> <<"trade_id", "id", "rowid">>
      [] role = "sym" -> <<"symbol", "underlying", "ticker">>
      [] role = "exp" -> <<"expiry", "expiration", "expiry_date">>
      [] role = "strk" -> <<"strike", "strike_price">>
      [] role = "right" -> <<"option_type", "right", "call_put">>
      [] role = "side" -> <<"side", "action">>
      [] role = "qty" -> <<"qty", "quantity", "contracts", "size">>
      [] role = "tin" -> <<"entry_time", "open_time", "time_in", "ts_in", "timestamp_in",
                           "timestamp">>
      [] role = "tout" -> <<"exit_time", "close_time", "time_out", "ts_out">>
      [] role = "pin" -> <<"entry_price", "open_price", "fill_price", "price_in",
                           "avg_entry", "price">>
      [] role = "pout" -> <<"exit_price", "close_price", "price_out", "avg_exit">>
      [] role = "real" -> <<"realized_pnl", "realized", "pnl", "profit">>
      [] role = "fees" -> <<"fees", "commission", "commissions", "total_fees">>
      [] role = "mult" -> <<"multiplier", "contract_multiplier">>
      [] role = "q_ts" -> <<"ts", "timestamp", "time", "quote_time">>
      [] role = "q_sym" -> <<"symbol", "underlying", "ticker">>
      [] role = "bid" -> <<"bid", "best_bid">>
      [] role = "ask" -> <<"ask", "best_ask">>

\* candidate_cols that gives the columns once only
candidate_cols_once(schema, table) ==
    IF first_map # None THEN <<>>
    ELSE schema[CHOOSE n \in DOMAIN schema : Lower(n) = Lower(table)]

\* PRAGMA table_info(table): the columns of the table in schema order; the
\* store finds the table whatever the case of the name (the audit asks with
\* the name in lower case)
candidate_cols(schema, table) ==
    schema[CHOOSE n \in DOMAIN schema : Lower(n) = Lower(table)]

RECURSIVE Low(_)
\* {c.lower(): c for c in cols}: a later column replaces an earlier one of
\* the same lower-case name
Low(cols) ==
    IF cols = <<>> THEN <<>>
    ELSE LET c == cols[Len(cols)]
         IN  (Lower(c) :> c) @@ Low(SubSeq(cols, 1, Len(cols) - 1))

RECURSIVE PickLow_last(_, _)
\* PickLow preferring the last candidate a column matches
PickLow_last(low, candidates) ==
    IF candidates = <<>> THEN None
    ELSE LET c == candidates[Len(candidates)]
         IN  IF Lower(c) \in DOMAIN low THEN Some(low[Lower(c)])
             ELSE PickLow_last(low, SubSeq(candidates, 1, Len(candidates) - 1))

RECURSIVE PickLow(_, _)
\* the loop of pick(): the column of the first candidate that is a key of
\* low.  The agent lowers the candidate; the audit's candidates are lower
\* case as written.
PickLow(low, candidates) ==
    IF candidates = <<>> THEN None
    ELSE IF Lower(Head(candidates)) \in DOMAIN low
         THEN Some(low[Lower(Head(candidates))])
         ELSE PickLow(low, Tail(candidates))

pick(cols, candidates) == PickLow(Low(cols), candidates)

NoMap == [r \in Roles |-> None]

\* The picks of main(): the fourteen roles of the trades table, and the
\* four of the quotes table when there is one.  Every pick of a table works
\* on the same columns, whose lower-case index is made once here, as the
\* audit's candidate_cols makes it.
Resolve(schema, tt, qt) ==
    LET tlow == Low(candidate_cols(schema, tt[1]))
        qlow == IF qt = None THEN <<>> ELSE Low(candidate_cols(schema, qt[1]))
    IN  [r \in Roles |->
            IF r \in Range(TradeRoles) THEN PickLow(tlow, Aliases(r))
            ELSE IF qt = None THEN None
            ELSE PickLow(qlow, Aliases(r))]

\* the roles left without a column
Unresolved(cm) == {r \in DOMAIN cm : cm[r] = None}

\* the columns the NBBO check needs (agent line 166, audit line 141)
NbboColumns == {"q_ts", "q_sym", "bid", "ask", "sym", "tin", "pin"}

\* NbboRuns looking for the quotes table only
NbboRuns_anycolumns(qt, unres) == qt # None

\* `if quotes_tbl:` and the test of the seven columns
NbboRuns(qt, unres) == qt # None /\ unres \cap NbboColumns = {}

\* a trades row as the code reads it when the roles unres have no column:
\* such a role reads as NULL
Mask(r, unres) ==
    [sym |-> IF "sym" \in unres THEN "" ELSE r.sym,
     tin |-> IF "tin" \in unres THEN Null ELSE r.tin,
     qty |-> IF "qty" \in unres THEN Null ELSE r.qty,
     pin |-> IF "pin" \in unres THEN Null ELSE r.pin,
     pout |-> IF "pout" \in unres THEN Null ELSE r.pout,
     real |-> IF "real" \in unres THEN Null ELSE r.real,
     fees |-> IF "fees" \in unres THEN Null ELSE r.fees,
     mult |-> IF "mult" \in unres THEN Null ELSE r.mult]

\* the process as it starts
Launch ==
    /\ pc = "start"
    /\ nbbo_cols = FALSE
    /\ trades_tbl = None
    /\ quotes_tbl = None
    /\ outputs = {}
    /\ clock = 0
    /\ first = None
    /\ unresolved = {}
    /\ colmap = NoMap
    /\ first_map = None
    /\ turn = "seq"
    /\ at = NotWoven
    /\ daily = <<>>
    /\ BlankGuard
    /\ BlankNbbo
    /\ BlankRest

\* arguments and configuration are read; the agent makes its output
\* directory (line 91); the store is opened
Begin ==
    /\ pc = "start"
    /\ outputs' = IF script = "agent" THEN outputs \cup {"outdir"} ELSE outputs
    /\ pc' = "detect"
    /\ UNCHANGED <<inVars, guardVars, nbboVars, slipVars, decision, reasons, summary,
                   exit_status>>

Detect ==
    /\ pc = "detect"
    /\ trades_tbl' = detect_table(script, tables, TradePatterns(script))
    /\ quotes_tbl' = detect_table(script, tables, QuotePatterns)
    /\ pc' = "detected"
    /\ UNCHANGED <<script, cfg, rows, qrows, nbbo_cols, tables, unresolved, clock, first,
                   columns, colmap, first_map, turn, at, guardVars, nbboVars, slipVars,
                   decVars>>

\* no trades table: a message and sys.exit(2)
Fatal ==
    /\ pc = "detected"
    /\ trades_tbl = None
    /\ exit_status' = Some(2)
    /\ pc' = "fatal"
    /\ UNCHANGED <<inVars, guardVars, nbboVars, slipVars, decision, reasons, summary,
                   outputs>>

\* the trades columns are resolved and the rows fetched.  What the test of
\* the quotes table and the seven columns will give is fixed from here on and
\* is taken down now; the code makes the test when it reaches the NBBO check.
Fetch ==
    /\ pc = "detected"
    /\ trades_tbl # None
    /\ colmap' = Resolve(columns, trades_tbl, quotes_tbl)
    /\ unresolved' = Unresolved(colmap')
    /\ nbbo_cols' = NbboRuns(quotes_tbl, unresolved')
    /\ pc' = "daily"
    /\ UNCHANGED <<script, cfg, rows, qrows, tables, columns, trades_tbl, quotes_tbl,
                   clock, first, first_map, turn, at, guardVars, nbboVars, slipVars,
                   decVars>>

\* The schema of a store whose tables have, for every role but those of u,
\* the column named by the role's first candidate.
CanonCols(roles, u) ==
    LET sel == SelectSeq(roles, LAMBDA r : r \notin u)
    IN  [i \in 1..Len(sel) |-> Aliases(sel[i])[1]]

StoreColumns(names, u) ==
    [n \in Range(names) |->
        IF detect_table("agent", <<n>>, QuotePatterns) # None
        THEN CanonCols(QuoteRoles, u)
        ELSE CanonCols(TradeRoles, u)]

BothSchema == StoreColumns(<<"trades", "quotes">>, {})
TradesSchema == StoreColumns(<<"trades">>, {})
BothMap == Resolve(BothSchema, Some("trades"), Some("quotes"))
TradesMap == Resolve(TradesSchema, Some("trades"), None)

\* a store with a trades table (and a quotes table where the NBBO check
\* runs) once main() has detected its tables, resolved every column and made
\* the agent's output directory
Fetched ==
    /\ tables = IF nbbo_cols THEN <<"trades", "quotes">> ELSE <<"trades">>
    /\ unresolved = {}
    /\ trades_tbl = Some("trades")
    /\ quotes_tbl = IF nbbo_cols THEN Some("quotes") ELSE None
    /\ outputs = IF script = "agent" THEN {"outdir"} ELSE {}
    /\ clock = 0
    /\ first = None
    /\ columns = IF nbbo_cols THEN BothSchema ELSE TradesSchema
    /\ colmap = IF nbbo_cols THEN BothMap ELSE TradesMap
    /\ first_map = None
    /\ turn = "seq"
    /\ at = NotWoven

\* The start of main() once the rows are fetched
Start ==
    /\ pc = "daily"
    /\ Fetched
    /\ daily = <<>>
    /\ BlankGuard
    /\ BlankNbbo
    /\ BlankRest

\* the script is run again, later, on the same store with the same
\* configuration; what the first run wrote is still there
Rerun ==
    /\ pc = "done"
    /\ first = None
    /\ first' = summary
    /\ clock' = clock + 1
    /\ pc' = "start"
    /\ nbbo_cols' = FALSE
    /\ trades_tbl' = None
    /\ quotes_tbl' = None
    /\ daily' = <<>>
    /\ gi' = 0
    /\ loss_streak' = 0
    /\ allowed' = None
    /\ guardrail_breaches' = <<>>
    /\ symmap' = <<>>
    /\ ni' = 0
    /\ q' = None
    /\ checked' = 0
    /\ within' = 0
    /\ mid_or_better' = 0
    /\ nbbo_outliers' = <<>>
    /\ nbbo_stats' = None
    /\ day_5' = <<>>
    /\ slip_5' = None
    /\ day_10' = <<>>
    /\ slip_10' = None
    /\ decision' = ""
    /\ reasons' = <<>>
    /\ summary' = None
    /\ exit_status' = None
    /\ unresolved' = {}
    /\ colmap' = NoMap
    /\ UNCHANGED <<script, cfg, rows, qrows, tables, columns, first_map, turn, at,
                   outputs>>

\* The guardrail scan: every store of up to MaxDays trading days in a row,
\* one trade a day, whose net values lie around the three allowed losses.
PnlValues ==
    { 10 * USD, 0, -50 * USD, -100 * USD - 1, -150 * USD, -250 * USD,
      -300 * USD, -300 * USD - 1, -350 * USD }

TradingDays ==
    <<"2024-01-02 09:30:00", "2024-01-03 09:30:00", "2024-01-04 09:30:00",
      "2024-01-05 09:30:00", "2024-01-08 09:30:00", "2024-01-09 09:30:00">>

DayTrade(i, v) ==
    Row("SPY", Text(TradingDays[i]), Num(1), Num(USD), Num(USD),
        Num(v), Null, Null)

InitGuard ==
    /\ script \in {"agent", "audit"}
    /\ cfg = DefaultCfg
    /\ \E n \in 0..MaxDays : \E v \in [1..n -> PnlValues] :
           rows = [i \in 1..n |-> DayTrade(i, v[i])]
    /\ qrows = <<>>
    /\ nbbo_cols = FALSE
    /\ Start

NextGuard == BuildDaily \/ GuardrailDay \/ GuardrailEnd

SpecGuard == InitGuard /\ [][NextGuard]_vars

\* A whole run: every store of up to MaxRows trades over two days, with and
\* without a quote, with and without a quotes table or a trades table, under the default thresholds and under thresholds that the
\* same stores meet exactly.
MaxRows == 2

Day1 == Text("2024-01-02 09:30:00")
Day2 == Text("2024-01-03 09:30:00")

AltCfg ==
    [nbbo_within_pct |-> 5000, mid_rate_max_pct |-> 5000,
     pf_5c_min |-> 130, pf_10c_min |-> 53,
     guardrail_breaches_max |-> 1, tolerance |-> USD \div 100,
     slippage_penalty_cents |-> <<2 * Cent>>]

\* entry price 1.10 is at the ask and above mid, 1.00 at the bid and below
\* mid, 1.30 outside the band; realized 18 and -5 leave 13 and -10 under the
\* 0.05 penalty and 8 and -15 under the 0.10 penalty.
RunTrades ==
    { Row("SPY", tin, Num(1), Num(k[1]), Num(USD), Num(k[2]), Null, Null) :
        tin \in {Day1, Day2},
        k \in { <<110 * (USD \div 100), 18 * USD>>,
                <<100 * (USD \div 100), -5 * USD>>,
                <<130 * (USD \div 100), -350 * USD>> } }
    \cup { Row("SPY", Null, Num(1), Num(USD), Num(USD), Num(-5 * USD), Null, Null),
           Row("SPY", Day1, Num(1), Num(100 * (USD \div 100)),
               Num(118 * (USD \div 100)), Null, Null, Null),
           Row("SPY", Day2, Null, Num(130 * (USD \div 100)), Num(USD),
               Num(-5 * USD), Num(2 * USD), Num(100)),
           Row("SPY", Day1, Text("abc"), Num(USD), Num(USD), Null, Null, Null) }

RunQuotes ==
    { <<>>,
      <<QuoteRow("SPY", Text("2024-01-02"), Num(100 * (USD \div 100)),
                 Num(110 * (USD \div 100)))>> }

\* stores with both tables, with a trades table only and with none
RunStores == { <<"trades", "quotes">>, <<"Fills">>, <<"quotes", "bars">> }

Init ==
    /\ script \in {"agent", "audit"}
    /\ cfg \in {DefaultCfg, AltCfg}
    /\ tables \in RunStores
    /\ columns = StoreColumns(tables, {})
    /\ IF detect_table(script, tables, TradePatterns(script)) = None
       THEN rows = <<>>
       ELSE \E n \in 0..MaxRows : rows \in [1..n -> RunTrades]
    /\ IF detect_table(script, tables, QuotePatterns) = None
       THEN qrows = <<>>
       ELSE qrows \in RunQuotes
    /\ Launch

Next ==
    \/ Begin \/ Detect \/ Fatal \/ Fetch
    \/ BuildDaily \/ BuildDailyRaise \/ GuardrailDay \/ GuardrailEnd
    \/ NbboSkip \/ NbboBuild \/ NbboRow \/ NbboRowRaise \/ NbboEnd
    \/ Slip5 \/ Slip10
    \/ DecGuardrail \/ DecWithin \/ DecMid \/ DecPf5 \/ DecPf10
    \/ Summary

Spec == Init /\ [][Next]_vars

\* The quote matcher: one trade against every quote table of up to
\* MaxQuotes rows.  Quote timestamps come as a bare date, as full texts and
\* as a number; the trade's lies before, on and between them.
MaxQuotes == 3

MatchQuotes ==
    { QuoteRow("SPY", Text("2024-01-02"), Num(100 * Cent), Num(110 * Cent)),
      QuoteRow("SPY", Text("2024-01-02 09:30:00"), Num(100 * Cent), Num(110 * Cent)),
      QuoteRow("SPY", Text("2024-01-02 09:30:00"), Num(110 * Cent), Num(100 * Cent)),
      QuoteRow("SPY", Text("2024-01-02 10:00:00"), Num(100 * Cent), Num(110 * Cent)),
      QuoteRow("SPY", Num(1704187800), Num(100 * Cent), Null),
      QuoteRow("QQQ", Text("2024-01-02 09:30:00"), Num(100 * Cent), Num(110 * Cent)) }

MatchTrades ==
    { Row(sym, tin, Num(1), Num(px), Num(USD), Num(0), Null, Null) :
        sym \in {"SPY", "QQQ"},
        tin \in {Text("2024-01-01 16:00:00"), Text("2024-01-02 09:30:00"),
                 Text("2024-01-02 09:45:00")},
        px \in {99 * Cent, 110 * Cent, 111 * Cent, 112 * Cent} }
    \cup { Row("SPY", Null, Num(1), Num(110 * Cent), Num(USD), Num(0), Null, Null),
           Row("", Text("2024-01-02 09:45:00"), Num(1), Num(110 * Cent), Num(USD),
               Num(0), Null, Null) }

InitMatch ==
    /\ script \in {"agent", "audit"}
    /\ cfg = DefaultCfg
    /\ rows \in {<<>>} \cup {<<t>> : t \in MatchTrades}
    /\ \E n \in 0..MaxQuotes : qrows \in [1..n -> MatchQuotes]
    /\ nbbo_cols = TRUE
    /\ Start

NextMatch ==
    \/ BuildDaily \/ GuardrailDay \/ GuardrailEnd
    \/ NbboBuild \/ NbboRow \/ NbboRowRaise \/ NbboEnd

SpecMatch == InitMatch /\ [][NextMatch]_vars

\* ------------------------------------------------ guardrail properties

\* the net P&L of the i-th day of the scan
PnlOfDay(i) == daily[days[i]]

\* C3: after a day whose net P&L is >= 0 loss_streak is 0, whatever it was
\* before, and a losing day that follows such a day is held to 300.
C3_ProfitDayResets ==
    /\ (gi >= 1 /\ PnlOfDay(gi) >= 0) => loss_streak = 0
    /\ (gi >= 2 /\ PnlOfDay(gi - 1) >= 0 /\ PnlOfDay(gi) < 0)
           => allowed = Some(300 * USD)

\* Scenario B: two losing days, a profit day, a losing day held to 300
C3_Witness ==
    /\ gi = 4
    /\ PnlOfDay(1) < 0 /\ PnlOfDay(2) < 0 /\ PnlOfDay(3) > 0 /\ PnlOfDay(4) < 0
    /\ allowed = Some(300 * USD)
    /\ loss_streak = 1

C4_F(k) == CASE k = 0 -> 300 * USD [] k = 1 -> 200 * USD
             [] k = 2 -> 100 * USD [] k = 3 -> 100 * USD

\* C4: on a day whose net P&L is < 0 the allowed loss is 300, 200, 100, 100
\* for a streak of 0, 1, 2, 3 at the start of the day, and the day leaves
\* loss_streak at min(3, loss_streak + 1).
C4_LosingDayStep ==
    [][(pc = "guardrail" /\ gi < Len(days) /\ PnlOfDay(gi + 1) < 0)
          => /\ allowed' = Some(C4_F(loss_streak))
             /\ loss_streak' = Min(3, loss_streak + 1)]_vars

\* a fourth losing day in a row: evaluated at streak 3 against 100
C4_Witness ==
    /\ gi = 4
    /\ \A i \in 1..4 : PnlOfDay(i) < 0
    /\ allowed = Some(100 * USD)
    /\ loss_streak = 3

RECURSIVE C5_StreakAtOpen(_)
\* the streak at the open of the i-th day, by the rule of the specification
C5_StreakAtOpen(i) ==
    IF i = 1 THEN 0
    ELSE IF PnlOfDay(i - 1) >= 0 THEN 0
    ELSE Min(3, C5_StreakAtOpen(i - 1) + 1)

\* C5: a day is in the breach list if and only if its net P&L is negative
\* and exceeds, in absolute value, the allowed loss for the streak at its
\* open plus 1e-6; the record carries the date, the net P&L to the cent, the
\* allowed loss and the streak at open.
C5_BreachIffOverAllowed ==
    \A i \in 1..gi :
        LET over == /\ PnlOfDay(i) < 0
                    /\ -PnlOfDay(i) > C4_F(C5_StreakAtOpen(i)) + 1
            recs == {j \in 1..Len(guardrail_breaches) :
                        guardrail_breaches[j].date = days[i]}
        IN  /\ over <=> recs # {}
            /\ \A j \in recs :
                  guardrail_breaches[j] =
                      [date |-> days[i], net_pnl |-> Round2(PnlOfDay(i)),
                       allowed |-> C4_F(C5_StreakAtOpen(i)),
                       streak |-> C5_StreakAtOpen(i)]

\* C6: loss_streak is 0, 1, 2 or 3 in every state of the scan.
C6_StreakRange == loss_streak \in 0..3

\* four losing days in a row: the cap has acted
C6_Witness ==
    /\ gi = 4
    /\ \A i \in 1..4 : PnlOfDay(i) < 0
    /\ loss_streak = 3

\* -------------------------------------------- quote matcher properties

\* the quote the script's matcher gives for a trade row
Matched(r) ==
    IF script = "agent" THEN last_before(symmap, r.sym, r.tin)
    ELSE nearest(symmap, r.sym, r.tin)

\* the trade rows the agent's loop puts to the matcher
Put(r) == r.sym # "" /\ Truthy(r.tin)

\* the i-th of the rows looked at so far was put to the matcher and matched
Counted(i) == Put(rows[i]) /\ Matched(rows[i]) # None

\* C7: the matcher never gives a quote whose timestamp text is greater than
\* the trade's entry timestamp text.
C7_NoLookAhead ==
    /\ \A i \in 1..Len(rows) :
          Matched(rows[i]) # None
              => StrLeq(Matched(rows[i])[1].ts, Str(rows[i].tin))
    /\ (ni >= 1 /\ Put(rows[ni]) /\ q # None)
           => StrLeq(q[1].ts, Str(rows[ni].tin))

\* a quote was matched although a later quote of the symbol was on offer
C7_Witness ==
    /\ script = "agent"
    /\ ni = 1
    /\ q # None
    /\ \E j \in 1..Len(symmap[rows[1].sym]) :
          ~StrLeq(symmap[rows[1].sym][j].ts, Str(rows[1].tin))

\* C8: every symbol's list holds that symbol's quotes in ascending order of
\* timestamp text; the matcher gives the last entry of the list whose text is
\* <= the trade's, and gives none exactly when no quote of the symbol is <=
\* the trade's; the agent counts a trade as checked exactly when it got one.
C8_LastAtOrBefore ==
    /\ \A sy \in DOMAIN symmap : \A j \in 1..(Len(symmap[sy]) - 1) :
          StrLeq(symmap[sy][j].ts, symmap[sy][j + 1].ts)
    /\ pc \in {"nbbo_loop", "slippage", "crashed"} =>
          \A i \in 1..Len(rows) :
             LET r == rows[i]
                 key == Str(r.tin)
                 arr == IF r.sym \in DOMAIN symmap THEN symmap[r.sym] ELSE <<>>
                 le == {j \in 1..Len(arr) : StrLeq(arr[j].ts, key)}
                 m == Matched(r)
             IN  /\ Len(arr) = Cardinality({j \in 1..Len(qrows) : qrows[j].sym = r.sym})
                 /\ m = None <=>
                       ~\E j \in 1..Len(qrows) :
                            qrows[j].sym = r.sym /\ StrLeq(Str(qrows[j].ts), key)
                 /\ m # None =>
                       /\ le # {}
                       /\ m[1] = arr[CHOOSE j \in le : \A k \in le : k <= j]
    /\ (script = "agent" /\ ni >= 1 /\ Put(rows[ni])) => q = Matched(rows[ni])
    /\ script = "agent" => checked = Cardinality({i \in 1..ni : Counted(i)})

\* three quotes of the symbol: one before the match, the match, one after it
C8_Witness ==
    /\ script = "agent"
    /\ ni = 1
    /\ checked = 1
    /\ Len(symmap[rows[1].sym]) = 3
    /\ q = Some(symmap[rows[1].sym][2])
    /\ symmap[rows[1].sym][1].ts # symmap[rows[1].sym][2].ts

\* C9: a checked trade is within band exactly when bid - tolerance <= price
\* <= ask + tolerance, and is otherwise recorded as an outlier.
C9_BandOrOutlier ==
    script = "agent" =>
        LET InBand(i) ==
                LET m == Matched(rows[i])[1]
                    px == IF Truthy(rows[i].pin) THEN rows[i].pin.n ELSE 0
                IN  m.bid - cfg.tolerance <= px /\ px <= m.ask + cfg.tolerance
            out == {i \in 1..ni : Counted(i) /\ ~InBand(i)}
        IN  /\ within = Cardinality({i \in 1..ni : Counted(i) /\ InBand(i)})
            /\ Len(nbbo_outliers) = Cardinality(out)
            /\ \A i \in out : \E j \in 1..Len(nbbo_outliers) :
                  /\ nbbo_outliers[j].symbol = rows[i].sym
                  /\ nbbo_outliers[j].time = Str(rows[i].tin)
                  /\ nbbo_outliers[j].price = rows[i].pin.n

\* Scenario C, second half: a price of ask + 0.02 at tolerance 0.01
C9_Witness ==
    /\ script = "agent"
    /\ ni = 1
    /\ checked = 1
    /\ cfg.tolerance = Cent
    /\ rows[1].pin.n = q[1].ask + 2 * Cent
    /\ within = 0
    /\ Len(nbbo_outliers) = 1

\* Scenario C, first half: a price exactly at the ask is within band
C9_AtAsk ==
    /\ script = "agent"
    /\ ni = 1
    /\ checked = 1
    /\ rows[1].pin.n = q[1].ask
    /\ within = 1

\* ------------------------------------------------- decision properties

\* the exact profit factor of a scenario's DailyPnL is below m hundredths
\* after rounding to two decimals; it is computable when a day is negative
C1_PfBelow(day, m) ==
    LET neg == {d \in DOMAIN day : day[d] < 0}
        f == profit_factor(SeriesOf(day))
    IN  neg # {} /\ Round2Ratio(f[1]) < m

C1_PctBelow(k, n, m) == n > 0 /\ RoundDiv(10000 * k, n) < m
C1_PctAbove(k, n, m) == n > 0 /\ RoundDiv(10000 * k, n) > m

\* C1: the final decision is REJECT exactly when the breach count exceeds
\* its maximum, or the within-band percent was computed and is below its
\* minimum, or the mid-or-better percent was computed and is above its
\* maximum, or the profit factor under the 0.05 penalty is computable and
\* below pf_5c_min, or the one under the 0.10 penalty is computable and below
\* pf_10c_min; it is APPROVE otherwise.
C1_RejectIff ==
    (script = "agent" /\ pc \in {"summary", "done"}) =>
        LET why ==
                \/ Len(guardrail_breaches) > cfg.guardrail_breaches_max
                \/ nbbo_stats # None /\ C1_PctBelow(within, checked, cfg.nbbo_within_pct)
                \/ nbbo_stats # None
                       /\ C1_PctAbove(mid_or_better, checked, cfg.mid_rate_max_pct)
                \/ C1_PfBelow(day_5, cfg.pf_5c_min)
                \/ C1_PfBelow(day_10, cfg.pf_10c_min)
        IN  decision = IF why THEN "REJECT" ELSE "APPROVE"

\* C2: in every verdict, decision = REJECT if and only if the reasons list
\* is non-empty.
C2_RejectHasReason ==
    /\ decision \in {"APPROVE", "REJECT"}
           => (decision = "REJECT" <=> reasons # <<>>)
    /\ (script = "agent" /\ summary # None)
           => /\ summary[1].decision \in {"APPROVE", "REJECT"}
              /\ summary[1].decision = "REJECT" <=> summary[1].reasons # <<>>

\* a written verdict that rejects for two reasons
C2_Witness ==
    /\ pc = "done"
    /\ summary # None
    /\ summary[1].decision = "REJECT"
    /\ Len(summary[1].reasons) = 2

\* ------------------------------------------------- slippage properties

C10_NullIffNoLosingDay(day, res) ==
    res # None =>
        (res[1].pf = None <=> \A d \in DOMAIN day : day[d] >= 0)

\* C10: for each slippage scenario the reported profit factor is null if
\* and only if no day of the scenario's DailyPnL is negative.
C10_PfNullIffNoLoss ==
    /\ C10_NullIffNoLosingDay(day_5, slip_5)
    /\ C10_NullIffNoLosingDay(day_10, slip_10)

RECURSIVE C11_SumOver(_, _)
\* the sum of day[d] over the dates d of S
C11_SumOver(day, S) ==
    IF S = {} THEN 0
    ELSE LET d == CHOOSE x \in S : TRUE
         IN  day[d] + C11_SumOver(day, S \ {d})

C11_PerDay(day, res) ==
    LET up == {d \in DOMAIN day : day[d] > 0}
        down == {d \in DOMAIN day : day[d] < 0}
        pos == C11_SumOver(day, up)
        neg == -C11_SumOver(day, down)
    IN  /\ res.pf # None =>
              /\ down # {}
              /\ res.pf = Some(Round2Ratio([wins |-> pos, losses |-> neg]))
        /\ (up # {} /\ down # {}) => res.pf # None
        /\ script = "audit" =>
              /\ res.wins = Cardinality(up)
              /\ res.losses = Cardinality(down)

\* C11: the profit factor a scenario reports is the sum of its DailyPnL's
\* positive days over the sum of the absolute values of its negative days
\* (to two decimals), and the winning and losing counts it reports are the
\* numbers of positive and of negative days.
C11_PfAndCountsPerDay ==
    /\ slip_5 # None => C11_PerDay(day_5, slip_5[1])
    /\ slip_10 # None => C11_PerDay(day_10, slip_10[1])

\* C12: the slippage scenarios the agent evaluates are exactly the penalties
\* of execution.slippage_penalty_cents: one result for each configured
\* penalty, each computed from the DailyPnL under that penalty.
C12_ScenariosFromConfig ==
    (script = "agent" /\ slip_10 # None) =>
        LET ps == cfg.slippage_penalty_cents
        IN  /\ Len(ps) = 2
            /\ day_5 = DayPnl(script, rows, ps[1])
            /\ day_10 = DayPnl(script, rows, ps[2])

\* ------------------------------------------------- DailyPnL properties
\* The aggregation: every store of up to MaxRows trades whose entry
\* timestamps come in every format either script reads, as an epoch number,
\* as NULL and as a text no format reads, with long and short quantities,
\* fees, a stored and a derived realized value.
DailyStamps ==
    { Text("2024-01-02 09:30:00"), Text("2024-01-02T15:00:00"),
      Text("2024/01/03 09:30:00"), Num(1704187800), Text("n/a"), Null }

DailyTrades ==
    { Row("SPY", tin, k[1], Num(100 * Cent), Num(118 * Cent), k[2], k[3], k[4]) :
        tin \in DailyStamps,
        k \in { <<Num(1), Num(18 * USD), Null, Null>>,
                <<Num(-2), Num(-5 * USD), Num(USD), Null>>,
                <<Num(3), Null, Null, Num(10)>> } }

InitDaily ==
    /\ script \in {"agent", "audit"}
    /\ cfg = DefaultCfg
    /\ \E n \in 0..MaxRows : rows \in [1..n -> DailyTrades]
    /\ qrows = <<>>
    /\ nbbo_cols = FALSE
    /\ Start

NextDaily ==
    \/ BuildDaily \/ GuardrailDay \/ GuardrailEnd
    \/ NbboSkip
    \/ Slip5 \/ Slip10

SpecDaily == InitDaily /\ [][NextDaily]_vars

\* the rows whose entry timestamp the script parses to the date d
OnDate(d) == {i \in 1..Len(rows) : to_dt(script, rows[i].tin) = Some(d)}

RECURSIVE SumRows(_, _)
\* the sum of f[i] over the row numbers i of S
SumRows(f, S) ==
    IF S = {} THEN 0
    ELSE LET i == CHOOSE x \in S : TRUE
         IN  f[i] + SumRows(f, S \ {i})

\* |quantity| * multiplier of row i, a missing quantity counting 0 and a
\* missing multiplier 100
C13_Exposure(i) ==
    LET qty == IF rows[i].qty.k = "num" THEN rows[i].qty.n ELSE 0
        mult == IF rows[i].mult.k = "num" /\ rows[i].mult.n # 0
                THEN rows[i].mult.n ELSE 100
    IN  (IF qty < 0 THEN -qty ELSE qty) * mult

C13_Stressed(day, p) ==
    /\ DOMAIN day = DOMAIN daily
    /\ \A d \in DOMAIN day :
          day[d] = daily[d]
                   - p * SumRows([i \in 1..Len(rows) |-> C13_Exposure(i)], OnDate(d))

\* C13: under the penalty p each day's value is its base value less p times
\* the sum of |quantity| * multiplier over the trades entered on that day,
\* and the scenario has exactly the days of the base DailyPnL.
C13_SlipPerContract ==
    /\ slip_5 # None => C13_Stressed(day_5, Cents5)
    /\ slip_10 # None => C13_Stressed(day_10, Cents10)

\* a day holding a long and a short trade, stressed at 0.10
C13_Witness ==
    /\ slip_10 # None
    /\ \E d \in DOMAIN daily :
          /\ \E i, j \in OnDate(d) : rows[i].qty.n > 0 /\ rows[j].qty.n < 0
          /\ day_10[d] < day_5[d]
          /\ day_5[d] < daily[d]

\* realized - fees of row i from its stored values
C14_Base(i) ==
    LET r == rows[i]
        num(x, dflt) == IF x.k = "num" /\ x.n # 0 THEN x.n ELSE dflt
        realized == IF r.real.k = "null"
                    THEN (num(r.pout, 0) - num(r.pin, 0)) * num(r.qty, 0) * num(r.mult, 100)
                    ELSE r.real.n
    IN  realized - num(r.fees, 0)

\* the rows with a parsed entry date
Dated == SelectSeq(rows, LAMBDA r : to_dt(script, r.tin) # None)

\* C14: the base DailyPnL has exactly the dates of the trades whose entry
\* timestamp parses, each holding the sum of realized - fees over the trades
\* of that date; a trade whose entry timestamp is NULL or does not parse is in
\* no date of the base DailyPnL nor of a scenario's: without it they are the
\* same.
C14_DailyByEntryDate ==
    /\ pc # "daily" =>
          /\ DOMAIN daily = {to_dt(script, rows[i].tin)[1] :
                                i \in {j \in 1..Len(rows) :
                                          to_dt(script, rows[j].tin) # None}}
          /\ \A d \in DOMAIN daily :
                daily[d] = SumRows([i \in 1..Len(rows) |-> C14_Base(i)], OnDate(d))
          /\ daily = DayPnl(script, Dated, 0)
    /\ slip_5 # None => day_5 = DayPnl(script, Dated, Cents5)
    /\ slip_10 # None => day_10 = DayPnl(script, Dated, Cents10)

\* a dated trade beside one with a NULL or unreadable entry timestamp
C14_Witness ==
    /\ slip_10 # None
    /\ Len(rows) = 2
    /\ Cardinality(DOMAIN daily) = 1
    /\ Len(Dated) = 1
    /\ \E i \in 1..2 : rows[i].tin.k = "text" /\ to_dt(script, rows[i].tin) = None

\* ------------------------------------------------ coercion properties
\* Stores of up to MaxRows trades whose realized value is a number, a text
\* holding a number, a text holding none or NULL, and whose quantity, prices
\* and fees are numbers, NULL, numbers written as text or texts that are no
\* number; dated and undated.  No quotes table.
CoerceTrades ==
    { Row("SPY", tin, k[1], k[2], Num(118 * Cent), k[3], k[4], Null) :
        tin \in {Day1, Null},
        k \in { <<Num(1), Num(100 * Cent), Num(18 * USD), Null>>,
                <<Num(1), Num(100 * Cent), Text("12.5"), Null>>,
                <<Num(1), Num(100 * Cent), Text("n/a"), Null>>,
                <<Text("2"), Text("1.00"), Null, Null>>,
                <<Text("abc"), Num(100 * Cent), Null, Null>>,
                <<Num(1), Num(100 * Cent), Num(18 * USD), Text("n/a")>> } }

InitCoerce ==
    /\ script \in {"agent", "audit"}
    /\ cfg = DefaultCfg
    /\ \E n \in 0..MaxRows : rows \in [1..n -> CoerceTrades]
    /\ qrows = <<>>
    /\ nbbo_cols = FALSE
    /\ Start

NextCoerce ==
    \/ BuildDaily \/ BuildDailyRaise \/ GuardrailDay \/ GuardrailEnd
    \/ NbboSkip
    \/ Slip5 \/ Slip10
    \/ DecGuardrail \/ DecWithin \/ DecMid \/ DecPf5 \/ DecPf10
    \/ Summary

SpecCoerce == InitCoerce /\ [][NextCoerce]_vars

\* a stored value that is a number or a text holding one
IsNumber(x) == x.k = "num" \/ (x.k = "text" /\ ParseFloat(x.s, 1) # None)

\* the number a field holds, or dflt where it holds none (or the number 0)
C16_Field(x, dflt, unit) ==
    IF x.k = "num" THEN (IF x.n = 0 THEN dflt ELSE x.n)
    ELSE IF x.k = "text" /\ ParseFloat(x.s, unit) # None THEN ParseFloat(x.s, unit)[1]
    ELSE dflt

\* (exit_price - entry_price) * quantity * multiplier of row i
C15_Derived(i) ==
    (C16_Field(rows[i].pout, 0, USD) - C16_Field(rows[i].pin, 0, USD))
        * C16_Field(rows[i].qty, 0, 1) * C16_Field(rows[i].mult, 100, 1)

\* realized of row i by the rule of C15
C15_Realized(i) ==
    IF rows[i].real.k = "num" THEN rows[i].real.n
    ELSE IF IsNumber(rows[i].real) THEN ParseFloat(rows[i].real.s, USD)[1]
    ELSE C15_Derived(i)

\* every quantity, price, fee and multiplier of the store is a number or NULL
CleanFields ==
    \A i \in 1..Len(rows) :
        \A x \in {rows[i].qty, rows[i].pin, rows[i].pout, rows[i].fees, rows[i].mult} :
            x.k = "null" \/ IsNumber(x)

\* C15: realized is the stored value when that is a number, and is derived as
\* (exit_price - entry_price) * quantity * multiplier in every other case: in
\* a store whose other fields are numbers the run builds the base DailyPnL,
\* and each day holds the sum of that realized value less fees.
C15_RealizedStoredOrDerived ==
    CleanFields =>
        /\ pc # "crashed"
        /\ pc # "daily" =>
              \A d \in DOMAIN daily :
                  daily[d] = SumRows([i \in 1..Len(rows) |->
                                         C15_Realized(i) - C16_Field(rows[i].fees, 0, USD)],
                                     OnDate(d))

\* every realized value of the store is a number or NULL
CleanRealized == \A i \in 1..Len(rows) : rows[i].real.k \in {"num", "null"}

\* C16: a quantity, price or fee that is missing or no number counts as 0.0
\* (a missing multiplier as 100.0), the row is still processed and the run
\* goes on to its verdict: it does not abort, and each day of the base
\* DailyPnL holds the sum over its rows with the fields so defaulted.
C16_FieldsCoerced ==
    CleanRealized =>
        /\ pc # "crashed"
        /\ exit_status # None => exit_status = Some(0)
        /\ pc # "daily" =>
              \A d \in DOMAIN daily :
                  daily[d] = SumRows([i \in 1..Len(rows) |->
                                         C15_Realized(i) - C16_Field(rows[i].fees, 0, USD)],
                                     OnDate(d))

\* ------------------------------------------------- whole-run properties

\* Two runs, one after the other, on the same store and configuration.
NextTwice == Next \/ Rerun

SpecTwice == Init /\ [][NextTwice]_vars

\* C17: a second run on the same store with the same configuration writes
\* the summary document the first run wrote, field for field.
C17_SameOutputTwice ==
    (first # None /\ summary # None) => summary = first

\* C18: when no table matches a trades candidate the run ends at once with a
\* non-zero exit status and has created nothing: no summary, CSV file, report
\* or output directory.
C18_FatalLeavesNothing ==
    /\ (pc = "detected" /\ trades_tbl = None) => ENABLED Fatal
    /\ pc = "fatal" =>
          /\ trades_tbl = None
          /\ exit_status # None /\ exit_status # Some(0)
          /\ summary = None
          /\ outputs = {}

\* C19: when a trades table is resolved and the run has ended, it has ended
\* with exit status 0 and has written its summary, whatever the decision; a
\* non-zero exit status goes with an unresolved trades table only.  Stated
\* for stores whose fields are numbers or NULL.
C19_SuccessUnlessFatal ==
    (CleanFields /\ CleanRealized) =>
        /\ (trades_tbl # None /\ pc \in {"done", "crashed", "fatal"}) =>
              /\ exit_status = Some(0)
              /\ summary # None
              /\ "summary" \in outputs
        /\ (exit_status # None /\ exit_status # Some(0)) =>
              pc = "fatal" /\ trades_tbl = None
        /\ pc = "crashed" => exit_status # None

\* The NBBO check skipped: stores with and without a quotes table in which
\* none or one of the seven columns the check needs is unresolved (or two,
\* one of each table), holding a quote and trades entered outside the band
\* and above mid, which the check would reject if it ran.
SkipStores == { <<"trades", "quotes">>, <<"trades">> }

SkipUnresolved == {{}, {"bid", "tin"}} \cup {{c} : c \in NbboColumns}

SkipTrades ==
    { Row("SPY", Day1, Num(1), Num(px), Num(USD), Num(real), Null, Null) :
        px \in {110 * Cent, 130 * Cent}, real \in {18 * USD, -5 * USD} }

InitSkip ==
    /\ script \in {"agent", "audit"}
    /\ cfg = DefaultCfg
    /\ tables \in SkipStores
    /\ \E u \in SkipUnresolved :
          /\ columns = StoreColumns(tables, u)
          /\ \E n \in 0..MaxRows : rows \in [1..n -> {Mask(r, u) : r \in SkipTrades}]
    /\ IF detect_table(script, tables, QuotePatterns) = None
       THEN qrows = <<>>
       ELSE qrows \in RunQuotes \ {<<>>}
    /\ Launch

NextSkip ==
    \/ Begin \/ Detect \/ Fetch
    \/ BuildDaily \/ GuardrailDay \/ GuardrailEnd
    \/ NbboSkip \/ NbboBuild \/ NbboRow \/ NbboRowRaise \/ NbboEnd
    \/ Slip5 \/ Slip10
    \/ DecGuardrail \/ DecWithin \/ DecMid \/ DecPf5 \/ DecPf10
    \/ Summary

SpecSkip == InitSkip /\ [][NextSkip]_vars

NbboReasons ==
    { "NBBO coverage below threshold",
      "Mid-or-better rate too high (unrealistic fills)" }

\* C20: when the store has no quotes table, or one of the quote columns
\* (timestamp, symbol, bid, ask) or trade columns (symbol, entry time, entry
\* price) is unresolved, the NBBO check does not run: no quote is read, no
\* trade is checked, no error is raised, the result is reported as null and
\* no reason of the verdict is an NBBO reason.
C20_NbboSkipped ==
    (/\ pc \notin {"start", "detect"}
     /\ quotes_tbl = None \/ unresolved \cap NbboColumns # {}) =>
        /\ pc \notin {"nbbo_loop", "crashed"}
        /\ symmap = <<>> /\ ni = 0 /\ checked = 0 /\ nbbo_outliers = <<>>
        /\ nbbo_stats = None
        /\ \A i \in 1..Len(reasons) : reasons[i] \notin NbboReasons
        /\ summary # None =>
              /\ summary[1].nbbo_stats = None
              /\ \A i \in 1..Len(summary[1].reasons) :
                    summary[1].reasons[i] \notin NbboReasons
              /\ "nbbo_outliers_sample.csv" \notin outputs

\* a store with quotes whose bid column is unresolved and a trade entered
\* outside the band: the run ends with no NBBO result and approves
C20_Witness ==
    /\ pc = "done"
    /\ script = "agent"
    /\ quotes_tbl # None
    /\ qrows # <<>>
    /\ unresolved = {"bid"}
    /\ \E i \in 1..Len(rows) : rows[i].pin = Num(130 * Cent)
    /\ summary[1].nbbo_stats = None
    /\ summary[1].decision = "APPROVE"

\* ------------------------------------------------------ the schema resolver

\* Trades tables: the columns of Scenario D, names in another case, several
\* candidates of one role listed against their priority, names that only
\* contain a candidate, the first candidates, and none.
SchemaTradeCols ==
    { <<"fill_price", "price_out", "contracts", "commission">>,
      <<"Symbol", "ENTRY_TIME", "Qty", "Entry_Price">>,
      <<"price", "fill_price", "timestamp", "open_time", "size", "qty">>,
      <<"entry_price_usd", "symbols">>,
      CanonCols(TradeRoles, {}),
      <<"note">> }

SchemaQuoteCols ==
    { CanonCols(QuoteRoles, {}),
      <<"best_ask", "best_bid", "Ticker", "Quote_Time", "time">>,
      <<"ts", "symbol", "bid", "offer">> }

SchemaStores ==
    { <<"executed_fills">>, <<"executed_fills", "quotes">>, <<"NBBO", "Trades">>,
      <<"bars">> }

InitSchema ==
    /\ script \in {"agent", "audit"}
    /\ cfg = DefaultCfg
    /\ tables \in SchemaStores
    /\ \E tc \in SchemaTradeCols, qc \in SchemaQuoteCols :
          columns = [n \in Range(tables) |->
                        IF detect_table("agent", <<n>>, QuotePatterns) # None
                        THEN qc ELSE tc]
    /\ rows = <<>>
    /\ qrows = <<>>
    /\ Launch

NextSchema == Begin \/ Detect \/ Fatal \/ Fetch

SpecSchema == InitSchema /\ [][NextSchema]_vars

\* the columns of the table the run took for its trades (quotes) table
C21_Columns(t) ==
    IF t = None THEN <<>>
    ELSE columns[CHOOSE n \in Range(tables) : Lower(n) = Lower(t[1])]

\* the candidates of role r that equal a column of cols but for case
C21_Hits(cols, r) ==
    {k \in 1..Len(Aliases(r)) : \E i \in 1..Len(cols) : Lower(cols[i]) = Aliases(r)[k]}

\* role r has the column of cols that its first such candidate names, or
\* none when it has no such candidate
C21_Assigned(cols, r) ==
    IF C21_Hits(cols, r) = {} THEN colmap[r] = None
    ELSE LET k == CHOOSE x \in C21_Hits(cols, r) : \A y \in C21_Hits(cols, r) : x <= y
         IN  /\ Len(colmap[r]) = 1
             /\ colmap[r][1] \in Range(cols)
             /\ Lower(colmap[r][1]) = Aliases(r)[k]

C21_ScenarioD == <<"fill_price", "price_out", "contracts", "commission">>

\* C21: once the columns are resolved, every role has the column named by
\* the first candidate of its list that equals a column name but for case,
\* at most one column, and none when no candidate does; with the columns
\* fill_price, price_out, contracts, commission the entry price is
\* fill_price, the exit price price_out, the quantity contracts and the fees
\* commission, and a table executed_fills is taken as the trades table.
C21_RolesByPriority ==
    pc = "daily" =>
        /\ \A r \in Range(TradeRoles) : C21_Assigned(C21_Columns(trades_tbl), r)
        /\ \A r \in Range(QuoteRoles) : C21_Assigned(C21_Columns(quotes_tbl), r)
        /\ \A r \in Roles : Len(colmap[r]) <= 1
        /\ tables[1] = "executed_fills" => trades_tbl = Some("executed_fills")
        /\ C21_Columns(trades_tbl) = C21_ScenarioD =>
              /\ colmap["pin"] = Some("fill_price")
              /\ colmap["pout"] = Some("price_out")
              /\ colmap["qty"] = Some("contracts")
              /\ colmap["fees"] = Some("commission")

\* Scenario D resolved
C21_Witness ==
    /\ pc = "daily"
    /\ trades_tbl = Some("executed_fills")
    /\ columns["executed_fills"] = C21_ScenarioD
    /\ colmap["pin"] = Some("fill_price")
    /\ colmap["real"] = None

\* The resolver run a second time on the same connection: detect_table and
\* the picks start over, and what the first run gave is kept for comparison.
ResolveAgain ==
    /\ pc = "daily"
    /\ first_map = None
    /\ first_map' = Some([trades_tbl |-> trades_tbl, quotes_tbl |-> quotes_tbl,
                           colmap |-> colmap])
    /\ trades_tbl' = None
    /\ quotes_tbl' = None
    /\ colmap' = NoMap
    /\ unresolved' = {}
    /\ nbbo_cols' = FALSE
    /\ pc' = "detect"
    /\ UNCHANGED <<script, cfg, rows, qrows, tables, columns, clock, first, turn, at,
                   guardVars, nbboVars, slipVars, decVars>>

NextSchemaTwice == NextSchema \/ ResolveAgain

SpecSchemaTwice == InitSchema /\ [][NextSchemaTwice]_vars

Entry == [g |-> "guardrail", n |-> "nbbo", s |-> "slippage"]

Handoff(a) ==
    CASE a = "g" -> "nbbo"
      [] a = "n" -> "slippage"
      [] a = "s" -> IF script = "agent" THEN "dec_guard" ELSE "summary"

Analyzers == {"g", "n", "s"}

\* analyzer a may take a step: the analyzers run in program order, or it
\* is the one running
Runs(a) == turn \in {"seq", a}

\* With the DailyPnL built, the three analyzers are started side by side
\* and one of them is given the processor.
Fork ==
    /\ pc = "guardrail"
    /\ turn = "seq"
    /\ gi = 0
    /\ \E a \in Analyzers :
          /\ turn' = a
          /\ pc' = Entry[a]
    /\ at' = Entry
    /\ UNCHANGED <<script, cfg, rows, qrows, nbbo_cols, tables, unresolved, trades_tbl,
                   quotes_tbl, clock, first, columns, colmap, first_map, guardVars,
                   nbboVars, slipVars, decVars>>

\* The running analyzer is left where it is and another, not yet at its
\* end, goes on from where it was left.
Switch ==
    /\ turn \in Analyzers
    /\ pc # "crashed"
    /\ \E b \in Analyzers \ {turn} :
          /\ at[b] # Handoff(b)
          /\ at' = [at EXCEPT ![turn] = pc]
          /\ pc' = at[b]
          /\ turn' = b
    /\ UNCHANGED <<script, cfg, rows, qrows, nbbo_cols, tables, unresolved, trades_tbl,
                   quotes_tbl, clock, first, columns, colmap, first_map, guardVars,
                   nbboVars, slipVars, decVars>>

\* All three analyzers are at their end: the decision starts.
Join ==
    /\ turn \in Analyzers
    /\ pc = Handoff(turn)
    /\ \A b \in Analyzers \ {turn} : at[b] = Handoff(b)
    /\ pc' = Handoff("s")
    /\ turn' = "seq"
    /\ at' = [at EXCEPT ![turn] = pc]
    /\ UNCHANGED <<script, cfg, rows, qrows, nbbo_cols, tables, unresolved, trades_tbl,
                   quotes_tbl, clock, first, columns, colmap, first_map, guardVars,
                   nbboVars, slipVars, decVars>>

WeaveGuardrail == Runs("g") /\ (GuardrailDay \/ GuardrailEnd)

WeaveNbbo == Runs("n") /\ (NbboSkip \/ NbboBuild \/ NbboRow \/ NbboRowRaise \/ NbboEnd)

WeaveSlip == Runs("s") /\ (Slip5 \/ Slip10)

WeaveDecide ==
    /\ turn = "seq"
    /\ DecGuardrail \/ DecWithin \/ DecMid \/ DecPf5 \/ DecPf10 \/ Summary

\* Two trading days, a winning and a losing trade, entry prices inside and
\* outside the band, and a dateless trade whose price is no number.
WeaveTrades ==
    { Row("SPY", Day1, Num(1), Num(110 * Cent), Num(USD), Num(18 * USD), Null, Null),
      Row("SPY", Day1, Num(1), Num(130 * Cent), Num(USD), Num(-350 * USD), Null, Null),
      Row("SPY", Day2, Num(2), Num(100 * Cent), Num(USD), Num(-250 * USD), Null, Null),
      Row("SPY", Day2, Num(1), Num(105 * Cent), Num(USD), Num(5 * USD), Null, Null),
      Row("SPY", Null, Num(1), Text("abc"), Num(USD), Num(USD), Null, Null) }

InitWeave ==
    /\ script \in {"agent", "audit"}
    /\ cfg = DefaultCfg
    /\ \E n \in 0..MaxRows : rows \in [1..n -> WeaveTrades]
    /\ nbbo_cols \in {TRUE, FALSE}
    /\ qrows = IF nbbo_cols
               THEN <<QuoteRow("SPY", Text("2024-01-02"), Num(100 * Cent), Num(110 * Cent))>>
               ELSE <<>>
    /\ Start

NextWeave ==
    \/ BuildDaily \/ BuildDailyRaise
    \/ Fork \/ Switch \/ Join
    \/ WeaveGuardrail \/ WeaveNbbo \/ WeaveSlip
    \/ WeaveDecide

SpecWeave == InitWeave /\ [][NextWeave]_vars

RECURSIVE C23_Breaches(_)
\* the breach list of the first i days scanned in date order
C23_Breaches(i) ==
    IF i = 0 THEN <<>>
    ELSE LET pnl == PnlOfDay(i)
             st == C5_StreakAtOpen(i)
             a == AllowedLoss(script, pnl, st)
         IN  IF IsBreach(script, pnl, a)
             THEN Append(C23_Breaches(i - 1), BreachRecord(days[i], pnl, a, st))
             ELSE C23_Breaches(i - 1)

C23_Band(i) ==
    WithinBand(FloatOr(rows[i].pin, 0), Matched(rows[i])[1].bid, Matched(rows[i])[1].ask,
               cfg.tolerance)

C23_Mid(i) ==
    AtOrAboveMid(FloatOr(rows[i].pin, 0), Matched(rows[i])[1].bid, Matched(rows[i])[1].ask)

RECURSIVE C23_Outliers(_)
\* the outliers among the first i rows, in row order
C23_Outliers(i) ==
    IF i = 0 THEN <<>>
    ELSE IF Counted(i) /\ ~C23_Band(i)
         THEN Append(C23_Outliers(i - 1),
                     [symbol |-> rows[i].sym, time |-> Str(rows[i].tin),
                      price |-> FloatOr(rows[i].pin, 0),
                      bid |-> Matched(rows[i])[1].bid, ask |-> Matched(rows[i])[1].ask])
         ELSE C23_Outliers(i - 1)

\* the NBBO statistics of a pass over all the rows
C23_Stats ==
    LET cs == {i \in 1..Len(rows) : Counted(i)}
        w == Cardinality({i \in cs : C23_Band(i)})
        m == Cardinality({i \in cs : C23_Mid(i)})
    IN  IF nbbo_cols
        THEN Some([checked |-> Cardinality(cs), within |-> w,
                   pct_within |-> Pct(w, Cardinality(cs)),
                   pct_mid_or_better |-> Pct(m, Cardinality(cs))])
        ELSE None

\* the reasons the decision gives on these results, in its order
C23_Reasons ==
    LET st == C23_Stats
        s5 == SlipResult(script, rows, Cents5)
        s10 == SlipResult(script, rows, Cents10)
    IN  (IF Len(C23_Breaches(Len(days))) > cfg.guardrail_breaches_max
         THEN <<"Guardrail breaches present">> ELSE <<>>)
        \o (IF st # None /\ st[1].pct_within # None
                /\ st[1].pct_within[1] < cfg.nbbo_within_pct
            THEN <<"NBBO coverage below threshold">> ELSE <<>>)
        \o (IF st # None /\ st[1].pct_mid_or_better # None
                /\ st[1].pct_mid_or_better[1] > cfg.mid_rate_max_pct
            THEN <<"Mid-or-better rate too high (unrealistic fills)">> ELSE <<>>)
        \o (IF s5.pf # None /\ s5.pf[1] < cfg.pf_5c_min
            THEN <<"PF under $0.05 slippage below threshold">> ELSE <<>>)
        \o (IF s10.pf # None /\ s10.pf[1] < cfg.pf_10c_min
            THEN <<"PF under $0.10 slippage below threshold">> ELSE <<>>)

\* the analyzers are over and the decision has the processor
C23_Joined ==
    turn = "seq" /\ pc \in {"dec_guard", "dec_within", "dec_mid", "dec_pf5", "dec_pf10",
                            "summary", "done"}

\* C23: in whatever order the steps of the guardrail scan, the quote
\* matcher and the slippage analyzer are taken, each step changes the state
\* of its own analyzer only, and when all three are over the breach list,
\* the NBBO statistics and outliers, the two slippage results and then the
\* verdict are those of the scan in date order, the pass over the rows in
\* row order and the two scenarios, which is what program order gives.
C23_AnalyzersIndependent ==
    /\ [](C23_Joined =>
             /\ guardrail_breaches = C23_Breaches(Len(days))
             /\ nbbo_stats = C23_Stats
             /\ nbbo_cols => nbbo_outliers = C23_Outliers(Len(rows))
             /\ slip_5 = Some(SlipResult(script, rows, Cents5))
             /\ slip_10 = Some(SlipResult(script, rows, Cents10))
             /\ (script = "agent" /\ pc \in {"summary", "done"}) =>
                   /\ reasons = C23_Reasons
                   /\ decision = IF C23_Reasons = <<>> THEN "APPROVE" ELSE "REJECT")
    /\ [][/\ turn = "g" => (nbboVars' = nbboVars /\ slipVars' = slipVars)
          /\ turn = "n" => (guardVars' = guardVars /\ slipVars' = slipVars)
          /\ turn = "s" => (guardVars' = guardVars /\ nbboVars' = nbboVars)
          /\ turn \in Analyzers => (daily' = daily /\ rows' = rows /\ qrows' = qrows)]_vars

\* all three analyzers are under way at once: the matcher has looked at one
\* row of two, the scan at one day of two, the slippage analyzer has done
\* its first scenario
C23_Witness ==
    /\ turn = "n"
    /\ pc = "nbbo_loop"
    /\ ni = 1 /\ Len(rows) = 2 /\ checked = 1
    /\ at.g = "guardrail" /\ gi = 1 /\ Len(days) = 2
    /\ Len(guardrail_breaches) = 1
    /\ at.s = "slippage10" /\ slip_5 # None /\ slip_10 = None

\* ------------------------------------------------------------ the verdict

\* the reasons in the order the decision tests them
C24_Order ==
    <<"Guardrail breaches present",
      "NBBO coverage below threshold",
      "Mid-or-better rate too high (unrealistic fills)",
      "PF under $0.05 slippage below threshold",
      "PF under $0.10 slippage below threshold">>

C24_Rank(x) == CHOOSE k \in 1..Len(C24_Order) : C24_Order[k] = x

\* C24: while the decision is evaluated it goes from APPROVE to REJECT only
\* and never back; the reasons are only appended to, each one of the five
\* and later in the fixed order than those before it; once the summary is
\* produced the decision, the reasons and the summary stay as they are.
C24_DecisionMonotone ==
    /\ [](/\ \A i \in 1..Len(reasons) : \E k \in 1..Len(C24_Order) : reasons[i] = C24_Order[k]
          /\ \A i, j \in 1..Len(reasons) :
                i < j => C24_Rank(reasons[i]) < C24_Rank(reasons[j])
          /\ reasons # <<>> => decision = "REJECT"
          /\ summary # None =>
                /\ summary[1].decision = decision
                /\ summary[1].reasons = reasons)
    /\ [][/\ decision = "REJECT" => decision' = "REJECT"
          /\ decision = "APPROVE" => decision' \in {"APPROVE", "REJECT"}
          /\ Len(reasons') >= Len(reasons)
          /\ SubSeq(reasons', 1, Len(reasons)) = reasons
          /\ summary # None =>
                /\ decision' = decision
                /\ reasons' = reasons
                /\ summary' = summary]_vars

\* a verdict rejected on three grounds and written
C24_Witness ==
    /\ pc = "done"
    /\ script = "agent"
    /\ decision = "REJECT"
    /\ Len(reasons) >= 3
    /\ summary[1].reasons = reasons

\* ------------------------------------------- which trades are checked

\* One quote before every entry; trades with and without an entry price and
\* with entry times that parse, that are NULL and that no format reads.
CheckedStamps == {Day1, Null, Text("n/a"), Text("2024/01/03 09:30:00")}

CheckedTrades ==
    { Row("SPY", tin, Num(1), pin, Num(USD), Num(18 * USD), Null, Null) :
        tin \in CheckedStamps, pin \in {Num(105 * Cent), Null} }

InitChecked ==
    /\ script \in {"agent", "audit"}
    /\ cfg = DefaultCfg
    /\ \E n \in 0..MaxRows : rows \in [1..n -> CheckedTrades]
    /\ qrows = <<QuoteRow("SPY", Text("2024-01-02 09:00:00"), Num(100 * Cent),
                          Num(110 * Cent))>>
    /\ nbbo_cols = TRUE
    /\ Start

NextChecked ==
    \/ BuildDaily \/ GuardrailDay \/ GuardrailEnd
    \/ NbboBuild \/ NbboRow \/ NbboRowRaise \/ NbboEnd

SpecChecked == InitChecked /\ [][NextChecked]_vars

\* the trade has an entry timestamp and an entry price
C25_Eligible(r) == to_dt(script, r.tin) # None /\ r.pin.k # "null"

\* C25: a pass of the matcher's loop over a trade whose entry timestamp did
\* not parse or whose entry price is NULL leaves the number checked, the
\* number within band, the number at or above mid and the outlier list as
\* they were.
C25_OnlyStampedAndPriced ==
    [][(pc = "nbbo_loop" /\ ni' = ni + 1 /\ ~C25_Eligible(rows[ni + 1])) =>
          /\ checked' = checked
          /\ within' = within
          /\ mid_or_better' = mid_or_better
          /\ nbbo_outliers' = nbbo_outliers]_vars

\* ------------------------------------------------------- corrupt quotes

\* the next row of the loop is put to the matcher and matched to a quote
\* whose ask is below its bid
C26_NextCorrupt ==
    /\ pc = "nbbo_loop"
    /\ ni < Len(rows)
    /\ Put(rows[ni + 1])
    /\ Matched(rows[ni + 1]) # None
    /\ Matched(rows[ni + 1])[1].ask < Matched(rows[ni + 1])[1].bid

\* C26: the pass over a trade matched to a quote with ask < bid counts the
\* trade as checked, counts it within band or records it as an outlier, and
\* leaves the number at or above mid as it was.
C26_CorruptQuoteSkipsMid ==
    [][C26_NextCorrupt =>
          /\ ni' = ni + 1
          /\ checked' = checked + 1
          /\ mid_or_better' = mid_or_better
          /\ \/ within' = within + 1 /\ nbbo_outliers' = nbbo_outliers
             \/ within' = within /\ Len(nbbo_outliers') = Len(nbbo_outliers) + 1]_vars

\* ------------------------------------------------------- table detection

\* Stores of up to two tables whose names match a first, a later or no
\* candidate, in either order and in either case.
DetectNames ==
    {"positions", "My_Trades", "fills", "Position", "bars", "order_book", "NBBO_q"}

DetectStores ==
    {<<>>} \cup {<<a>> : a \in DetectNames}
    \cup {t \in DetectNames \X DetectNames : t[1] # t[2]}

InitDetect ==
    /\ script \in {"agent", "audit"}
    /\ cfg = DefaultCfg
    /\ tables \in DetectStores
    /\ columns = StoreColumns(tables, {})
    /\ rows = <<>>
    /\ qrows = <<>>
    /\ Launch

NextDetect == Begin \/ Detect \/ Fatal \/ Fetch

SpecDetect == InitDetect /\ [][NextDetect]_vars

\* table i of the store matches candidate p of the list
C27_Match(pats, p, i) == Contains(Lower(tables[i]), pats[p])

\* t is what the search with the candidates pats must give: nothing when no
\* table matches a candidate, and otherwise the first table in store order
\* among those matching the first candidate that any table matches
C27_First(pats, t) ==
    IF \A p \in 1..Len(pats), i \in 1..Len(tables) : ~C27_Match(pats, p, i)
    THEN t = None
    ELSE /\ t # None
         /\ \E p \in 1..Len(pats), i \in 1..Len(tables) :
               /\ C27_Match(pats, p, i)
               /\ \A pp \in 1..(p - 1), j \in 1..Len(tables) : ~C27_Match(pats, pp, j)
               /\ \A j \in 1..(i - 1) : ~C27_Match(pats, p, j)
               /\ Lower(t[1]) = Lower(tables[i])

\* C27: the trades table and the quotes table found are, each, the first
\* table in store order whose name contains, whatever the case, the first
\* candidate of the list that any table name contains; a table of an
\* earlier candidate is taken before one of a later candidate wherever it
\* stands in the store, and nothing is found only when no table matches.
C27_FirstCandidateWins ==
    pc \in {"detected", "fatal", "daily"} =>
        /\ C27_First(TradePatterns(script), trades_tbl)
        /\ C27_First(QuotePatterns, quotes_tbl)

\* the table of the first candidate stands second in the store
C27_Witness ==
    /\ pc = "detected"
    /\ tables = <<"positions", "My_Trades">>
    /\ Lower(trades_tbl[1]) = "my_trades"

\* ------------------------------------------ profit factor below minimum

\* the DailyPnL has a losing day and its profit factor, the sum of the
\* positive days over the absolute sum of the negative days, is below m
\* hundredths
C28_TruePfBelow(day, m) ==
    LET series == SeriesOf(day)
        wins == SumSeq([i \in 1..Len(series) |-> Positive(series[i])])
        losses == -SumSeq([i \in 1..Len(series) |-> Negative(series[i])])
        g == Gcd(wins, losses)
    IN  /\ \E i \in 1..Len(series) : series[i] < 0
        /\ 100 * (wins \div g) < m * (losses \div g)

\* C28: when the DailyPnL of a scenario has a losing day and a profit
\* factor below the scenario's minimum, a profit factor of 0 on losing days
\* without a winning day included, the verdict is REJECT and carries the
\* reason of that scenario.
C28_PfBelowRejects ==
    (script = "agent" /\ pc \in {"summary", "done"}) =>
        /\ C28_TruePfBelow(day_5, cfg.pf_5c_min) =>
              /\ decision = "REJECT"
              /\ \E i \in 1..Len(reasons) :
                    reasons[i] = "PF under $0.05 slippage below threshold"
        /\ C28_TruePfBelow(day_10, cfg.pf_10c_min) =>
              /\ decision = "REJECT"
              /\ \E i \in 1..Len(reasons) :
                    reasons[i] = "PF under $0.10 slippage below threshold"

\* ------------------------------------------------- the order of the scan

\* Trades fetched in any order of their dates, several on a day or none:
\* winning, losing within every allowed loss and losing beyond them all.
ScanPnl == {10 * USD, -50 * USD, -350 * USD}

ScanTrades == {DayTrade(i, v) : i \in 1..MaxDays, v \in ScanPnl}

InitScan ==
    /\ script \in {"agent", "audit"}
    /\ cfg = DefaultCfg
    /\ \E n \in 0..MaxDays : rows \in [1..n -> ScanTrades]
    /\ qrows = <<>>
    /\ nbbo_cols = FALSE
    /\ Start

NextScan == BuildDaily \/ GuardrailDay \/ GuardrailEnd

SpecScan == InitScan /\ [][NextScan]_vars

RECURSIVE C29_Run(_)
\* the number of losing days in a row that end with the i-th day
C29_Run(i) ==
    IF i = 0 THEN 0
    ELSE IF PnlOfDay(i) >= 0 THEN 0
    ELSE 1 + C29_Run(i - 1)

\* the days scanned so far that lost
C29_Losing == {i \in 1..gi : PnlOfDay(i) < 0}

\* C29: the scan takes the days of the DailyPnL one by one in strictly
\* ascending date order, each once; at the start of a day loss_streak is
\* min(3, k) for the k losing days in a row just before it; the breach list
\* is in ascending date order, has at most one breach a date, each on a
\* losing day, and so no more breaches than losing days.
C29_ScanInDateOrder ==
    /\ [](pc \in {"guardrail", "nbbo"} =>
             /\ gi \in 0..Len(days)
             /\ pc = "nbbo" => gi = Len(days)
             /\ {days[i] : i \in 1..Len(days)} = DOMAIN daily
             /\ \A i, j \in 1..Len(days) : i < j => days[i] < days[j]
             /\ loss_streak = Min(3, C29_Run(gi))
             /\ \A j, k \in 1..Len(guardrail_breaches) :
                   j < k => guardrail_breaches[j].date < guardrail_breaches[k].date
             /\ \A j \in 1..Len(guardrail_breaches) : \E i \in C29_Losing :
                   /\ guardrail_breaches[j].date = days[i]
                   /\ guardrail_breaches[j].streak = Min(3, C29_Run(i - 1))
             /\ Len(guardrail_breaches) <= Cardinality(C29_Losing))
    /\ [][pc = "guardrail" =>
             /\ gi' \in {gi, gi + 1}
             /\ gi' = gi => (gi = Len(days) /\ guardrail_breaches' = guardrail_breaches)
             /\ Len(guardrail_breaches') <= Len(guardrail_breaches) + 1
             /\ daily' = daily]_vars

\* four losing days in a row fetched last day first: the streak is at its
\* cap and every day breached
C29_Witness ==
    /\ pc = "guardrail"
    /\ gi = 4
    /\ Len(rows) = 4
    /\ to_dt(script, rows[1].tin)[1] > to_dt(script, rows[4].tin)[1]
    /\ loss_streak = 3
    /\ Len(guardrail_breaches) = 4

\* ------------------------------------------- the counters of the matcher

\* a percentage in hundredths between 0 and 100
C30_Percent(x) == x # None => (x[1] >= 0 /\ x[1] <= 10000)

\* C30: in every state of the matcher's loop and after it, checked is
\* within plus the number of recorded outliers, within and mid_or_better lie
\* between 0 and checked, and both reported percentages lie between 0 and
\* 100; when no trade was checked both percentages are null and the verdict
\* has no NBBO reason.
C30_CountersConsistent ==
    /\ checked = within + Len(nbbo_outliers)
    /\ 0 <= within /\ within <= checked
    /\ 0 <= mid_or_better /\ mid_or_better <= checked
    /\ nbbo_stats # None =>
          /\ nbbo_stats[1].checked = checked
          /\ nbbo_stats[1].within = within
          /\ C30_Percent(nbbo_stats[1].pct_within)
          /\ C30_Percent(nbbo_stats[1].pct_mid_or_better)
          /\ checked = 0 <=> nbbo_stats[1].pct_within = None
          /\ checked = 0 <=> nbbo_stats[1].pct_mid_or_better = None
    /\ checked = 0 => \A i \in 1..Len(reasons) : reasons[i] \notin NbboReasons
    /\ (summary # None /\ checked = 0) =>
          \A i \in 1..Len(summary[1].reasons) : summary[1].reasons[i] \notin NbboReasons

\* two trades checked, one within band and one an outlier, and reported
C30_Witness ==
    /\ pc = "done"
    /\ script = "agent"
    /\ checked = 2 /\ within = 1 /\ Len(nbbo_outliers) = 1
    /\ summary[1].nbbo_stats[1].pct_within = Some(5000)

====
